---- MODULE Spec2Model ----
(***************************************************************************)
(* Resumable collection engine of the Twitter API Scraper                  *)
(* (TAREA-1-EXTRACCION-DATOS/Twitter API Scraper): the scraper object, its *)
(* exporters (durable sinks), the checkpoint store and the entry point's   *)
(* termination paths, as one state machine.                                *)
(*                                                                         *)
(* Several specifications share the same actions and differ only in the    *)
(* inputs they enumerate:                                                  *)
(*   Spec      the engine on a small universe of tweets, every filter      *)
(*             outcome, every termination path, two process runs;          *)
(*   SpecLargo the engine fed a long stream of fresh accepted tweets, so   *)
(*             that the checkpoint cadence (10) is crossed;                *)
(*   SpecSink  the exporters alone, fed up to their auto-save thresholds;  *)
(*   SpecCkpt  save_checkpoint / load_checkpoint on checkpoint values;     *)
(*   SpecFallo the exporters with file writes that fail;                   *)
(*   SpecFiltro the engine given tweet objects with spelled-out texts,     *)
(*             filtered by the string matching of filters.py;              *)
(*   SpecBackoff the engine with transport calls that fail, and the waits  *)
(*             of obtener_tweets;                                          *)
(*   SpecConsulta the engine with the queries of generar_consulta, built   *)
(*             from the keyword lists of config/keywords.py;               *)
(*   SpecLogin the authentication of inicializar, login by login;          *)
(*   SpecProgreso one run without signals under fairness (liveness);       *)
(*   SpecAtribucion the engine with the query each cursor was opened for.  *)
(* Two more specifications are the other two scrapers of the repository:   *)
(*   SpecPlaywright extract_tweets of the Playwright Scraper (script.py);  *)
(*   SpecSelenium the Selenium Scraper: extraer_tweets, its checkpoints    *)
(*             and its CSV files, term after term;                         *)
(*   SpecCsv   CSVManager.guardar_tweets of the Selenium Scraper alone.    *)
(***************************************************************************)
EXTENDS Integers, Sequences, FiniteSets, TLC

(***************************************************************************)
(* Bounds of the model                                                     *)
(***************************************************************************)
\* distinct tweet ids the transport can deliver in Spec
MaxId == 2
\* largest --min-tweets value drawn in Spec
MaxTarget == 2
\* process runs (first run plus resumed runs) in Spec
MaxRuns == 2
\* candidates in one page of results in Spec
MaxPage == 2
\* hashes of new tweets the pages can deliver in SpecPlaywright
MaxHashes == 501
\* the first hashes, which can be of an excluded account, in SpecPlaywright
MaxExcluidos == 1
\* search terms of main's for in SpecSelenium
MaxTerminos == 2
\* tweets the page of a term can show in SpecSelenium
MaxTweetsTermino == 5
\* calls of guardar_tweets in SpecCsv
MaxLlamadas == 3
\* distinct tweet ids the calls are given in SpecCsv
MaxIdsCsv == 4
\* query categories the random choice of generar_consulta is drawn from in Spec
MaxCategorias == 1
\* consecutive pages without results followed in Spec
MaxVacias == 1
\* candidates given to procesar_tweet in one run in Spec
MaxCandidatos == 3
\* the --min-tweets value of SpecLargo, past two checkpoint cadences
MaxLargo == 21
\* records appended past the largest threshold in SpecSink
MaxExtra == 1
\* largest counter value of a checkpoint value drawn in SpecCkpt
MaxCampo == 1
\* ids a dedup snapshot is drawn from in SpecCkpt
MaxSnapshot == 3

(***************************************************************************)
(* Program constants                                                       *)
(***************************************************************************)
\* scraper.py:327  if self.tweets_count % 10 == 0
CHECKPOINT_CADA == 10
\* exporters.py:23  BaseExporter.auto_save_threshold
UMBRAL_BASE == 100
\* exporters.py:146  NonRelevantExporter.auto_save_threshold
UMBRAL_NONRELEVANT == 200
\* scraper.py:361  max_consultas_sin_resultados
max_consultas_sin_resultados == 5

(***************************************************************************)
(* Helpers                                                                 *)
(***************************************************************************)
None == "None"

Range(s) == {s[i] : i \in DOMAIN s}

\* the strictly increasing sequence of the elements of a finite set of integers
RECURSIVE SortedSeq(_)
SortedSeq(S) ==
    IF S = {} THEN <<>>
    ELSE LET m == CHOOSE x \in S : \A y \in S : x <= y
         IN <<m>> \o SortedSeq(S \ {m})

\* every sequence listing each element of S exactly once
Listas(S) ==
    {l \in [1..Cardinality(S) -> S] : Range(l) = S}

(***************************************************************************)
(* Tweets and filters (modules/filters.py)                                 *)
(*                                                                         *)
(* A tweet is its id plus the facts about its text and author that the     *)
(* filters test: rt (retweeted_status is set), reply (in_reply_to_status_id*)
(* is set), alta (a palabras_alta_relevancia term is in the text), inst    *)
(* (a FILTROS_CUENTAS term is in the user name or description), fuerte (an *)
(* expresiones_personales_fuertes term is in the text), comunicado (a      *)
(* FILTROS_COMUNICADOS term is in the text), pronombre (the regex of line  *)
(* 76 matches), personal (the regex of line 83 matches), crisis / estres   *)
(* (a palabras_crisis / palabras_estres term is in the text) and ecuador   *)
(* (a UBICACIONES_ECUADOR term is in text, location, description or name). *)
(***************************************************************************)
Tweet(id, rt, reply, alta, inst, fuerte, comunicado, pronombre, personal, crisis, estres, ecuador) ==
    [id |-> id, rt |-> rt, reply |-> reply, alta |-> alta, inst |-> inst,
     fuerte |-> fuerte, comunicado |-> comunicado, pronombre |-> pronombre,
     personal |-> personal, crisis |-> crisis, estres |-> estres,
     ecuador |-> ecuador]

\* the mutation of filtrar_tweet: the account rule comes before the reply rule
filtrar_tweet_cuenta_primero(tweet) ==
    IF tweet.rt THEN [incluir |-> FALSE, motivo |-> "retweet"]
    ELSE IF tweet.inst /\ ~tweet.fuerte
        THEN [incluir |-> FALSE, motivo |-> "cuenta_institucional"]
    ELSE IF tweet.reply /\ ~tweet.alta
        THEN [incluir |-> FALSE, motivo |-> "respuesta"]
    ELSE IF tweet.comunicado /\ ~tweet.pronombre
        THEN [incluir |-> FALSE, motivo |-> "comunicado_oficial"]
    ELSE IF tweet.personal
        THEN [incluir |-> TRUE, motivo |-> "expresion_personal"]
    ELSE IF tweet.crisis /\ tweet.estres
        THEN [incluir |-> TRUE, motivo |-> "crisis_estres"]
    ELSE [incluir |-> TRUE, motivo |-> "relevante"]

\* the mutation of filtrar_tweet: no strong personal expression lets an
\* institutional account through
filtrar_tweet_sin_excepcion(tweet) ==
    IF tweet.rt THEN [incluir |-> FALSE, motivo |-> "retweet"]
    ELSE IF tweet.reply /\ ~tweet.alta
        THEN [incluir |-> FALSE, motivo |-> "respuesta"]
    ELSE IF tweet.inst
        THEN [incluir |-> FALSE, motivo |-> "cuenta_institucional"]
    ELSE IF tweet.comunicado /\ ~tweet.pronombre
        THEN [incluir |-> FALSE, motivo |-> "comunicado_oficial"]
    ELSE IF tweet.personal
        THEN [incluir |-> TRUE, motivo |-> "expresion_personal"]
    ELSE IF tweet.crisis /\ tweet.estres
        THEN [incluir |-> TRUE, motivo |-> "crisis_estres"]
    ELSE [incluir |-> TRUE, motivo |-> "relevante"]

\* the mutation of filtrar_tweet: a tweet that matches nothing is rejected
filtrar_tweet_estricto(tweet) ==
    IF tweet.rt THEN [incluir |-> FALSE, motivo |-> "retweet"]
    ELSE IF tweet.reply /\ ~tweet.alta
        THEN [incluir |-> FALSE, motivo |-> "respuesta"]
    ELSE IF tweet.inst /\ ~tweet.fuerte
        THEN [incluir |-> FALSE, motivo |-> "cuenta_institucional"]
    ELSE IF tweet.comunicado /\ ~tweet.pronombre
        THEN [incluir |-> FALSE, motivo |-> "comunicado_oficial"]
    ELSE IF tweet.personal
        THEN [incluir |-> TRUE, motivo |-> "expresion_personal"]
    ELSE IF tweet.crisis /\ tweet.estres
        THEN [incluir |-> TRUE, motivo |-> "crisis_estres"]
    ELSE [incluir |-> FALSE, motivo |-> "irrelevante"]

filtrar_tweet(tweet) ==
    IF tweet.rt THEN [incluir |-> FALSE, motivo |-> "retweet"]
    ELSE IF tweet.reply /\ ~tweet.alta
        THEN [incluir |-> FALSE, motivo |-> "respuesta"]
    ELSE IF tweet.inst /\ ~tweet.fuerte
        THEN [incluir |-> FALSE, motivo |-> "cuenta_institucional"]
    ELSE IF tweet.comunicado /\ ~tweet.pronombre
        THEN [incluir |-> FALSE, motivo |-> "comunicado_oficial"]
    ELSE IF tweet.personal
        THEN [incluir |-> TRUE, motivo |-> "expresion_personal"]
    ELSE IF tweet.crisis /\ tweet.estres
        THEN [incluir |-> TRUE, motivo |-> "crisis_estres"]
    ELSE [incluir |-> TRUE, motivo |-> "relevante"]

ubicacion_ecuador(tweet) == tweet.ecuador

\* The tweets with a given id that the transport may deliver in Spec: a
\* personal expression from Ecuador, a plain tweet from Ecuador, a retweet, a
\* personal expression from elsewhere, and a retweet from elsewhere.
TweetsConId(id) ==
    { Tweet(id, FALSE, FALSE, FALSE, FALSE, FALSE, FALSE, TRUE, TRUE,
            FALSE, FALSE, TRUE),
      Tweet(id, FALSE, FALSE, FALSE, FALSE, FALSE, FALSE, FALSE, FALSE,
            FALSE, FALSE, TRUE),
      Tweet(id, TRUE, FALSE, FALSE, FALSE, FALSE, FALSE, FALSE, FALSE,
            FALSE, FALSE, TRUE),
      Tweet(id, FALSE, FALSE, FALSE, FALSE, FALSE, FALSE, TRUE, TRUE,
            FALSE, FALSE, FALSE),
      Tweet(id, TRUE, FALSE, FALSE, FALSE, FALSE, FALSE, FALSE, FALSE,
            FALSE, FALSE, FALSE) }

\* The one tweet with a given id delivered in SpecLargo and as a repeat.
TweetPersonal(id) ==
    Tweet(id, FALSE, FALSE, FALSE, FALSE, FALSE, FALSE, TRUE, TRUE,
          FALSE, FALSE, TRUE)

(***************************************************************************)
(* Tweets as the transport delivers them, and the tests filters.py makes   *)
(* on their texts                                                          *)
(***************************************************************************)
\* str.lower() on the letters that occur in the modelled texts
Mayusculas == "ABCDEFGHIJKLMNOPQRSTUVWXYZÁÉÍÓÚÑ"

Minusculas == "abcdefghijklmnopqrstuvwxyzáéíóúñ"

LowerChar(c) ==
    IF \E i \in 1..Len(Mayusculas) : SubSeq(Mayusculas, i, i) = c
    THEN LET i == CHOOSE i \in 1..Len(Mayusculas) : SubSeq(Mayusculas, i, i) = c
         IN SubSeq(Minusculas, i, i)
    ELSE c

RECURSIVE Lower(_)
Lower(t) ==
    IF Len(t) = 0 THEN ""
    ELSE LowerChar(SubSeq(t, 1, 1)) \o Lower(SubSeq(t, 2, Len(t)))

\* the characters of the modelled texts that the regular expression class \w
\* does not match
Separadores == {" ", ",", ".", ":", ";", "!", "?"}

\* palabra in texto
Contiene(texto, palabra) ==
    \E i \in 1..(Len(texto) - Len(palabra) + 1) :
        SubSeq(texto, i, i + Len(palabra) - 1) = palabra

\* any(palabra in texto for palabra in palabras)
Alguna(palabras, texto) ==
    \E palabra \in palabras : Contiene(texto, palabra)

\* re.search(r'\b(a|b|...)\b', texto): an alternative occurs with no word
\* character next to it on either side
BuscaPalabra(alternativas, texto) ==
    \E palabra \in alternativas :
        \E i \in 1..(Len(texto) - Len(palabra) + 1) :
            LET j == i + Len(palabra) - 1
            IN /\ SubSeq(texto, i, j) = palabra
               /\ i = 1 \/ SubSeq(texto, i - 1, i - 1) \in Separadores
               /\ j = Len(texto) \/ SubSeq(texto, j + 1, j + 1) \in Separadores

\* filtrar_tweet, lines 33-37
palabras_alta_relevancia ==
    { "estres", "estrés", "estresado", "estresada", "crisis", "apagón",
      "apagon", "apagones", "corte", "cortes", "sin luz",
      "sin electricidad" }

\* filtrar_tweet, lines 55-58
expresiones_personales_fuertes ==
    { "yo estoy", "me siento", "estoy harto", "estoy harta", "no aguanto",
      "me tiene", "no puedo", "sin dormir" }

\* filtrar_tweet, line 76: the alternatives of the first-person pattern
patron_primera_persona ==
    { "yo", "me", "mi", "mis", "estoy", "estamos", "tengo", "tenemos",
      "siento", "sentimos" }

\* filtrar_tweet, line 83: the alternatives of the personal-expression pattern
expresiones_personales_regex ==
    patron_primera_persona \cup
    { "harto", "harta", "cansado", "cansada", "frustrado", "frustrada",
      "desesperado", "desesperada", "agobiado", "agobiada", "estresado",
      "estresada", "nervioso", "nerviosa", "ansioso", "ansiosa",
      "angustiado", "angustiada", "preocupado", "preocupada" }

\* filtrar_tweet, lines 88-91
palabras_crisis ==
    { "apagón", "apagon", "apagones", "corte", "cortes", "sin luz",
      "sin electricidad", "crisis energética", "crisis energetica" }

\* filtrar_tweet, lines 93-96
palabras_estres ==
    { "estrés", "estres", "estresado", "estresada", "nervios", "ansiedad",
      "angustia", "frustración", "frustracion", "desesperación",
      "desesperacion" }

\* config/keywords.py, lines 112-120
FILTROS_COMUNICADOS ==
    { "comunicado oficial", "comunicado", "informa", "informamos",
      "noticia", "noticias", "última hora", "ultima hora", "urgente",
      "boletín", "boletin", "reporte", "reportamos", "anunciamos",
      "anuncio", "declaración", "declaracion", "declara",
      "declaramos", "oficial", "oficialmente", "ministerio",
      "gobierno", "autoridades", "fuentes oficiales", "según fuentes",
      "segun fuentes", "confirma", "confirmamos", "confirmado",
      "desmienten", "desmiente", "desmentimos" }

\* config/keywords.py, lines 123-131
FILTROS_CUENTAS ==
    { "oficial", "noticias", "news", "prensa", "press", "medio",
      "media", "diario", "periódico", "periodico", "revista",
      "magazine", "tv", "televisión", "television", "radio", "fm",
      "am", "informativo", "informativa", "noticiero", "ministerio",
      "gobierno", "presidencia", "alcaldía", "alcaldia", "municipio",
      "municipalidad", "prefectura", "gobernación", "gobernacion",
      "secretaría", "secretaria", "institución", "institucion",
      "empresa", "compañía", "compania" }

\* config/keywords.py, lines 212-228
UBICACIONES_ECUADOR ==
    { "Ecuador", "Quito", "Guayaquil", "Cuenca", "Ambato", "Manta",
      "Portoviejo", "Machala", "Loja", "Esmeraldas", "Santo Domingo",
      "Ibarra", "Riobamba", "Milagro", "Babahoyo", "Quevedo",
      "Latacunga", "Tulcán", "Tulcan", "Azogues", "Salinas", "Daule",
      "Durán", "Duran", "Otavalo", "Chone", "Quinindé", "Quininde",
      "Santa Elena", "La Libertad", "Samborondón", "Samborondon",
      "Jipijapa", "Huaquillas", "Ventanas", "Buena Fe", "Pichincha",
      "Guayas", "Azuay", "Manabí", "Manabi", "El Oro", "Tungurahua",
      "Los Ríos", "Los Rios", "Chimborazo", "Imbabura", "Cotopaxi",
      "Cañar", "Canar", "Bolívar", "Bolivar", "Sucumbíos",
      "Sucumbios", "Morona Santiago", "Zamora Chinchipe", "Carchi",
      "Napo", "Orellana", "Pastaza", "Santo Domingo de los Tsáchilas",
      "Santo Domingo de los Tsachilas", "Galápagos", "Galapagos",
      "ecuatoriano", "ecuatoriana", "ecuatorianos", "ecuatorianas",
      "EC", "ECU", "593" }

\* a tweet object of the transport: the attributes the filters read
TweetCrudo(id, text, name, description, location, retweeted_status, in_reply_to_status_id) ==
    [id |-> id, text |-> text, name |-> name, description |-> description,
     location |-> location, retweeted_status |-> retweeted_status,
     in_reply_to_status_id |-> in_reply_to_status_id]

\* ubicacion_ecuador, lines 116-128
texto_completo(crudo) ==
    Lower(crudo.text) \o " " \o Lower(crudo.location) \o " "
    \o Lower(crudo.description) \o " " \o Lower(crudo.name)

\* the outcome of every test that filtrar_tweet and ubicacion_ecuador make
\* on a tweet object
Analizar(crudo) ==
    LET texto == Lower(crudo.text)
        nombre_usuario == Lower(crudo.name)
        descripcion == Lower(crudo.description)
    IN Tweet(crudo.id,
             crudo.retweeted_status,
             crudo.in_reply_to_status_id # None,
             Alguna(palabras_alta_relevancia, texto),
             \E filtro \in FILTROS_CUENTAS :
                 Contiene(nombre_usuario, Lower(filtro))
                 \/ Contiene(descripcion, Lower(filtro)),
             Alguna(expresiones_personales_fuertes, texto),
             \E filtro \in FILTROS_COMUNICADOS :
                 Contiene(texto, Lower(filtro)),
             BuscaPalabra(patron_primera_persona, texto),
             BuscaPalabra(expresiones_personales_regex, texto),
             Alguna(palabras_crisis, texto),
             Alguna(palabras_estres, texto),
             \E ubicacion \in UBICACIONES_ECUADOR :
                 Contiene(texto_completo(crudo), Lower(ubicacion)))

(***************************************************************************)
(* Query categories (config/keywords.py, scraper.py generar_consulta)      *)
(***************************************************************************)
\* the keys of PALABRAS_CLAVE, which are the keys of self.estadisticas
ClavesEstadisticas ==
    {"crisis_energetica", "contexto_ecuador", "estres_directo",
     "manifestaciones_fisicas", "manifestaciones_psicologicas",
     "expresiones_malestar", "impacto_actividades"}

\* the categories generar_consulta can return, in the order of line 177
CategoriasManifestacion ==
    <<"estres_directo", "manifestaciones_fisicas",
      "manifestaciones_psicologicas", "expresiones_malestar",
      "impacto_actividades">>

EstadisticasCero == [c \in ClavesEstadisticas |-> 0]

\* config/keywords.py, lines 7-109: the dict PALABRAS_CLAVE
PALABRAS_CLAVE ==
    [crisis_energetica |->
        << "crisis energética", "crisis energetica", "apagones",
           "cortes de luz", "cortes de energía", "cortes de energia",
           "sin luz", "sin electricidad", "racionamiento eléctrico",
           "racionamiento electrico", "racionamiento de luz",
           "racionamiento energético", "racionamiento energetico",
           "escasez energética", "escasez energetica", "falta de luz",
           "falta de electricidad", "falta de energía", "falta de energia",
           "suspensión del servicio eléctrico",
           "suspension del servicio electrico", "problema eléctrico",
           "problema electrico", "problema de luz", "problema energético",
           "problema energetico", "crisis de luz", "crisis eléctrica",
           "crisis electrica", "emergencia energética",
           "emergencia energetica", "colapso energético",
           "colapso energetico", "déficit energético",
           "deficit energetico", "escasez eléctrica", "escasez electrica",
           "falla eléctrica", "falla electrica", "interrupción eléctrica",
           "interrupcion electrica", "sin servicio eléctrico",
           "sin servicio electrico", "corte de electricidad",
           "cortes de electricidad", "suspensión de energía",
           "suspension de energia", "suspensión eléctrica",
           "suspension electrica", "apagón", "apagon", "apagones",
           "sin energía", "sin energia", "racionamiento",
           "horario de cortes", "horarios de cortes" >>,
     contexto_ecuador |->
        << "Ecuador", "ecuatoriano", "ecuatoriana", "ecuatorianos",
           "ecuatorianas", "Quito", "Guayaquil", "Cuenca", "Ambato",
           "Manta", "Portoviejo", "Machala", "Loja", "Esmeraldas",
           "Santo Domingo", "Ibarra", "Riobamba", "Milagro", "Babahoyo",
           "Quevedo", "Latacunga", "Tulcán", "Tulcan", "Azogues" >>,
     estres_directo |->
        << "estresado", "estresada", "estrés", "estres", "estresante",
           "me estresa", "estresadísimo", "estresadísima", "estresándome",
           "me tiene estresado", "me tiene estresada", "estrés máximo",
           "estres maximo", "nivel de estrés", "nivel de estres",
           "estrés por", "estres por", "tanto estrés", "tanto estres",
           "qué estrés", "que estres", "puro estrés", "puro estres",
           "estresadísimo", "estresadisimo", "super estresado",
           "super estresada", "muy estresado", "muy estresada",
           "demasiado estrés", "demasiado estres", "estrés total",
           "estres total", "estrés crónico", "estres cronico",
           "estrés extremo", "estres extremo", "estrés severo",
           "estres severo", "estrés agudo", "estres agudo",
           "estrés intenso", "estres intenso", "estrés constante",
           "estres constante", "estrés permanente", "estres permanente",
           "estrés diario", "estres diario", "estrés continuo",
           "estres continuo", "estrés persistente", "estres persistente",
           "estrés prolongado", "estres prolongado" >>,
     manifestaciones_fisicas |->
        << "dolor de cabeza", "migraña", "migrana", "jaqueca", "insomnio",
           "no puedo dormir", "sin dormir", "no duermo",
           "tensión muscular", "tension muscular", "contractura",
           "dolor de espalda", "dolor de cuello", "dolor de hombros",
           "cansancio", "agotamiento", "agotado", "agotada", "fatiga",
           "fatigado", "fatigada", "exhausto", "exhausta", "taquicardia",
           "palpitaciones", "sudoración", "sudoracion", "temblor",
           "temblores", "tiemblo", "me tiemblan" >>,
     manifestaciones_psicologicas |->
        << "ansiedad", "ansioso", "ansiosa", "me da ansiedad", "angustia",
           "angustiado", "angustiada", "me angustia", "irritable",
           "irritado", "irritada", "irritabilidad", "frustración",
           "frustracion", "frustrado", "frustrada", "desesperación",
           "desesperacion", "desesperado", "desesperada", "preocupación",
           "preocupacion", "preocupado", "preocupada", "nervios",
           "nervioso", "nerviosa", "me pone nervioso", "me pone nerviosa",
           "mal humor", "malhumorado", "malhumorada", "de mal humor",
           "impotencia", "impotente", "me siento impotente" >>,
     expresiones_malestar |->
        << "no aguanto", "no soporto", "insoportable", "harto", "harta",
           "hartazgo", "me tiene harto", "me tiene harta", "cansado",
           "cansada", "cansancio", "me tiene cansado", "me tiene cansada",
           "colapsado", "colapsada", "colapso", "al borde del colapso",
           "saturado", "saturada", "saturación", "saturacion", "agobiado",
           "agobiada", "agobio", "me agobia", "abrumado", "abrumada",
           "me abruma", "abrumador", "fastidiado", "fastidiada",
           "fastidio", "me fastidia", "molesto", "molesta", "molestia",
           "me molesta", "qué rabia", "que rabia", "me da rabia",
           "rabioso", "rabiosa" >>,
     impacto_actividades |->
        << "no puedo trabajar", "imposible trabajar", "difícil trabajar",
           "dificil trabajar", "no puedo estudiar", "imposible estudiar",
           "difícil estudiar", "dificil estudiar", "afecta mi trabajo",
           "afecta mi estudio", "afecta mis estudios", "no rindo",
           "bajo rendimiento", "rindiendo mal", "no me concentro",
           "falta de concentración", "falta de concentracion", "distraído",
           "distraida", "distracción", "distraccion", "improductivo",
           "improductiva", "improductividad", "no avanzo",
           "no puedo avanzar", "estancado", "estancada",
           "perdiendo tiempo", "pérdida de tiempo", "perdida de tiempo",
           "retrasado", "retrasada", "retraso", "con retraso" >> ]

\* PALABRAS_CLAVE.items(): the keys in the order of the dict literal
OrdenClaves ==
    << "crisis_energetica", "contexto_ecuador", "estres_directo",
       "manifestaciones_fisicas", "manifestaciones_psicologicas",
       "expresiones_malestar", "impacto_actividades" >>

\* config/keywords.py, lines 134-209: (manifestacion, contexto) pairs
COMBINACIONES_BUSQUEDA ==
    <<
       <<"estresado", "apagones Ecuador">>,
       <<"estresada", "sin luz Ecuador">>,
       <<"cansado", "crisis energética Ecuador">>,
       <<"cansada", "cortes de luz Ecuador">>,
       <<"harto", "apagones Ecuador">>,
       <<"harta", "sin electricidad Ecuador">>,
       <<"no aguanto", "apagones Ecuador">>,
       <<"me tiene harto", "sin luz Ecuador">>,
       <<"me tiene harta", "cortes de luz Ecuador">>,
       <<"no puedo trabajar", "sin electricidad Ecuador">>,
       <<"no puedo estudiar", "apagones Ecuador">>,
       <<"sin dormir", "cortes de luz Ecuador">>,
       <<"insomnio", "apagones Ecuador">>,
       <<"desesperado", "crisis energética Ecuador">>,
       <<"desesperada", "sin luz Ecuador">>,
       <<"frustrado", "apagones Ecuador">>,
       <<"frustrada", "cortes de luz Ecuador">>,
       <<"ansioso", "sin electricidad Ecuador">>,
       <<"ansiosa", "apagones Ecuador">>,
       <<"irritado", "sin luz Ecuador">>,
       <<"irritada", "cortes de luz Ecuador">>,
       <<"agobiado", "crisis energética Ecuador">>,
       <<"agobiada", "apagones Ecuador">>,
       <<"colapsado", "sin electricidad Ecuador">>,
       <<"colapsada", "cortes de luz Ecuador">>,
       <<"qué estrés", "apagones Ecuador">>,
       <<"qué rabia", "sin luz Ecuador">>,
       <<"qué impotencia", "crisis energética Ecuador">>,
       <<"dolor de cabeza", "apagones Ecuador">>,
       <<"migraña", "sin luz Ecuador">>,
       <<"no puedo dormir", "cortes de luz Ecuador">>,
       <<"angustia", "crisis energética Ecuador">>,
       <<"preocupado", "apagones Ecuador">>,
       <<"preocupada", "sin electricidad Ecuador">>,
       <<"nervioso", "cortes de luz Ecuador">>,
       <<"nerviosa", "apagones Ecuador">>,
       <<"mal humor", "sin luz Ecuador">>,
       <<"impotencia", "crisis energética Ecuador">>,
       <<"no me concentro", "apagones Ecuador">>,
       <<"perdiendo tiempo", "sin luz Ecuador">>,
       <<"bajo rendimiento", "cortes de luz Ecuador">>,
       <<"afecta mi trabajo", "apagones Ecuador">>,
       <<"afecta mis estudios", "sin electricidad Ecuador">>,
       <<"estresado", "problema eléctrico Ecuador">>,
       <<"estresada", "problema de luz Ecuador">>,
       <<"cansado", "apagón Ecuador">>,
       <<"cansada", "apagones Ecuador">>,
       <<"harto", "corte de electricidad Ecuador">>,
       <<"harta", "cortes de electricidad Ecuador">>,
       <<"no aguanto", "racionamiento Ecuador">>,
       <<"me tiene harto", "horario de cortes Ecuador">>,
       <<"me tiene harta", "horarios de cortes Ecuador">>,
       <<"no puedo trabajar", "suspensión eléctrica Ecuador">>,
       <<"no puedo estudiar", "suspensión de energía Ecuador">>,
       <<"sin dormir", "falla eléctrica Ecuador">>,
       <<"insomnio", "interrupción eléctrica Ecuador">>,
       <<"desesperado", "sin servicio eléctrico Ecuador">>,
       <<"desesperada", "emergencia energética Ecuador">>,
       <<"frustrado", "colapso energético Ecuador">>,
       <<"frustrada", "déficit energético Ecuador">>,
       <<"ansioso", "escasez eléctrica Ecuador">>,
       <<"ansiosa", "crisis eléctrica Ecuador">>,
       <<"irritado", "problema energético Ecuador">>,
       <<"irritada", "crisis de luz Ecuador">>,
       <<"estrés total", "apagones Ecuador">>,
       <<"estres extremo", "cortes de luz Ecuador">>,
       <<"estrés crónico", "crisis energética Ecuador">>,
       <<"estres severo", "racionamiento eléctrico Ecuador">>,
       <<"estrés agudo", "sin electricidad Ecuador">>,
       <<"estres intenso", "falta de luz Ecuador">>,
       <<"estrés constante", "problema eléctrico Ecuador">>,
       <<"estres diario", "suspensión del servicio eléctrico Ecuador">>
    >>

\* the keys of PALABRAS_CLAVE whose list holds the word, in dict order, the
\* two context keys left out (generar_consulta, lines 158-161)
CategoriasDe(manifestacion) ==
    SelectSeq(OrdenClaves,
              LAMBDA categoria :
                  /\ categoria \notin {"crisis_energetica", "contexto_ecuador"}
                  /\ manifestacion \in Range(PALABRAS_CLAVE[categoria]))

\* the random draws of one call of generar_consulta: random.random() < 0.7
\* (predefinida) and the index random.choice takes in each list it is given
\* (an index a branch does not draw is 1)
Eleccion(predefinida, combinacion, crisis, contexto, categoria, manifestacion) ==
    [predefinida |-> predefinida, combinacion |-> combinacion,
     crisis |-> crisis, contexto |-> contexto, categoria |-> categoria,
     manifestacion |-> manifestacion]

\* the mutation of generar_consulta: no default category (lines 164-165 gone)
generar_consulta_sin_defecto(eleccion) ==
    IF eleccion.predefinida
    THEN LET par == COMBINACIONES_BUSQUEDA[eleccion.combinacion]
             halladas == CategoriasDe(par[1])
         IN [consulta |-> "\"" \o par[1] \o "\" " \o par[2]
                          \o " -filter:retweets -filter:replies lang:es",
             categoria |-> IF halladas = <<>> THEN None ELSE halladas[1]]
    ELSE LET categoria == CategoriasManifestacion[eleccion.categoria]
         IN [consulta |->
                 "(" \o PALABRAS_CLAVE[categoria][eleccion.manifestacion]
                 \o ") (" \o PALABRAS_CLAVE.crisis_energetica[eleccion.crisis]
                 \o ") (" \o PALABRAS_CLAVE.contexto_ecuador[eleccion.contexto]
                 \o ")" \o " -filter:retweets -filter:replies lang:es",
             categoria |-> categoria]

\* generar_consulta, lines 145-186: the query string, up to the since: and
\* until: dates of the settings that end it, and the category
generar_consulta(eleccion) ==
    IF eleccion.predefinida
    THEN LET par == COMBINACIONES_BUSQUEDA[eleccion.combinacion]
             halladas == CategoriasDe(par[1])
         IN [consulta |-> "\"" \o par[1] \o "\" " \o par[2]
                          \o " -filter:retweets -filter:replies lang:es",
             categoria |-> IF halladas = <<>> THEN "expresiones_malestar"
                           ELSE halladas[1]]
    ELSE LET categoria == CategoriasManifestacion[eleccion.categoria]
         IN [consulta |->
                 "(" \o PALABRAS_CLAVE[categoria][eleccion.manifestacion]
                 \o ") (" \o PALABRAS_CLAVE.crisis_energetica[eleccion.crisis]
                 \o ") (" \o PALABRAS_CLAVE.contexto_ecuador[eleccion.contexto]
                 \o ")" \o " -filter:retweets -filter:replies lang:es",
             categoria |-> categoria]

(***************************************************************************)
(* Files of the exporters (modules/exporters.py)                           *)
(*                                                                         *)
(* A file is absent, complete (it holds the rows of the write that made    *)
(* it) or cut (open(..., 'w') emptied it and the write then failed).  io   *)
(* says, per file name, how a write to it ends.                            *)
(***************************************************************************)
Primarios ==
    {"tweets.csv", "tweets.json", "nonrelevant.csv", "nonrelevant.json"}

Backup(nombre) ==
    CASE nombre = "tweets.csv" -> "tweets.csv.backup.csv"
      [] nombre = "tweets.json" -> "tweets.json.backup.json"
      [] nombre = "nonrelevant.csv" -> "nonrelevant.csv.backup.csv"
      [] nombre = "nonrelevant.json" -> "nonrelevant.json.backup.json"

Nombres == Primarios \cup {Backup(n) : n \in Primarios}

Ausente == [estado |-> "ausente", filas |-> <<>>]

SinArchivos == [n \in Nombres |-> Ausente]

IoOk == [n \in Nombres |-> "ok"]

\* with open(nombre, 'w') as file: ... write all of data
EscribirArchivo(fs, nombre, data, io) ==
    CASE io[nombre] = "ok" ->
           [fs |-> [fs EXCEPT ![nombre] =
                       [estado |-> "completo", filas |-> data]],
            ok |-> TRUE]
      [] io[nombre] = "open_fails" ->
           [fs |-> fs, ok |-> FALSE]
      [] io[nombre] = "write_fails" ->
           [fs |-> [fs EXCEPT ![nombre] =
                       [estado |-> "cortado", filas |-> <<>>]],
            ok |-> FALSE]

\* the rows a reader gets from a file
Filas(fs, nombre) ==
    IF fs[nombre].estado = "completo" THEN fs[nombre].filas ELSE <<>>

\* BaseExporter.__init__
BaseExporter(umbral) ==
    [data |-> <<>>, last_save_count |-> 0, auto_save_threshold |-> umbral]

\* the mutation of ArchivoSave: no fallback file is tried
ArchivoSaveSinRespaldo(exp, fs, nombre, io) ==
    LET w1 == EscribirArchivo(fs, nombre, exp.data, io)
    IN [fs |-> w1.fs, ret |-> w1.ok]

\* CSVExporter.save and JSONExporter.save: the primary file, and on failure
\* the backup file; the result is whether one of them was written
ArchivoSave(exp, fs, nombre, io) ==
    LET w1 == EscribirArchivo(fs, nombre, exp.data, io)
    IN IF w1.ok THEN [fs |-> w1.fs, ret |-> TRUE]
       ELSE LET w2 == EscribirArchivo(w1.fs, Backup(nombre), exp.data, io)
            IN [fs |-> w2.fs, ret |-> w2.ok]

\* NonRelevantExporter.save: CSV then JSON in one try block; on a failure of
\* either, both backup files in a second try block
NonRelevantSave(exp, fs, io) ==
    LET c1 == EscribirArchivo(fs, "nonrelevant.csv", exp.data, io)
        j1 == EscribirArchivo(c1.fs, "nonrelevant.json", exp.data, io)
        primario == IF c1.ok THEN j1 ELSE c1
        c2 == EscribirArchivo(primario.fs, Backup("nonrelevant.csv"),
                              exp.data, io)
        j2 == EscribirArchivo(c2.fs, Backup("nonrelevant.json"),
                              exp.data, io)
        respaldo == IF c2.ok THEN j2 ELSE c2
    IN IF primario.ok THEN [fs |-> primario.fs, ret |-> TRUE]
       ELSE [fs |-> respaldo.fs, ret |-> respaldo.ok]

\* the mutation of Save: the JSON exporter writes nothing
SaveSinJson(clase, exp, fs, io) ==
    CASE clase = "csv" -> ArchivoSave(exp, fs, "tweets.csv", io)
      [] clase = "json" -> [fs |-> fs, ret |-> TRUE]
      [] clase = "nonrelevant" -> NonRelevantSave(exp, fs, io)

\* save() of the exporter of the given class
Save(clase, exp, fs, io) ==
    CASE clase = "csv" -> ArchivoSave(exp, fs, "tweets.csv", io)
      [] clase = "json" -> ArchivoSave(exp, fs, "tweets.json", io)
      [] clase = "nonrelevant" -> NonRelevantSave(exp, fs, io)

\* the mutation of Export: the threshold test is strict
ExportUmbralEstricto(clase, exp, fs, tweet_data, io) ==
    LET data == Append(exp.data, tweet_data)
        e1 == [exp EXCEPT !.data = data]
    IN IF Len(data) - exp.last_save_count > exp.auto_save_threshold
       THEN [exp |-> [e1 EXCEPT !.last_save_count = Len(data)],
             fs |-> Save(clase, e1, fs, io).fs]
       ELSE [exp |-> e1, fs |-> fs]

\* export(tweet_data) followed, past the threshold, by auto_save(): save()
\* and then last_save_count = len(data), whatever save() returned
Export(clase, exp, fs, tweet_data, io) ==
    LET data == Append(exp.data, tweet_data)
        e1 == [exp EXCEPT !.data = data]
    IN IF Len(data) - exp.last_save_count >= exp.auto_save_threshold
       THEN [exp |-> [e1 EXCEPT !.last_save_count = Len(data)],
             fs |-> Save(clase, e1, fs, io).fs]
       ELSE [exp |-> e1, fs |-> fs]

(***************************************************************************)
(* Checkpoint store (modules/utils.py)                                     *)
(*                                                                         *)
(* A JSON object is the set of its keys (campos) and their values (v); a   *)
(* checkpoint file is missing, cut by a partial write, not JSON, or JSON.  *)
(* The timestamp key is written and never read back; it is left out.       *)
(***************************************************************************)
ValoresCero ==
    [tweets_count |-> 0, tweets_personales |-> 0, tweets_filtrados |-> 0,
     estadisticas |-> EstadisticasCero, tweet_ids |-> <<>>]

CamposCheckpoint ==
    {"tweets_count", "tweets_personales", "tweets_filtrados",
     "estadisticas", "tweet_ids"}

ArchivoNoJson(kind) == [kind |-> kind, obj |-> [campos |-> {}, v |-> ValoresCero]]

ArchivoJson(obj) == [kind |-> "json", obj |-> obj]

\* dict.get(k, default) and `if d:` on a JSON object
Get(d, k, default) == IF k \in d.campos THEN d.v[k] ELSE default

\* the mutation of save_checkpoint: the dedup snapshot is not written
save_checkpoint_sin_ids(checkpoint_file, data) ==
    ArchivoJson([data EXCEPT !.v.tweet_ids = <<>>])

\* save_checkpoint: open(checkpoint_file, 'w') and json.dump, run to the end
save_checkpoint(checkpoint_file, data) ==
    ArchivoJson(data)

\* load_checkpoint: None when the file is missing or json.load raises
\* JSONDecodeError, else the parsed value
load_checkpoint(checkpoint_file) ==
    IF checkpoint_file.kind = "missing" THEN [none |-> TRUE, d |-> checkpoint_file.obj]
    ELSE IF checkpoint_file.kind \in {"truncated", "garbage"}
        THEN [none |-> TRUE, d |-> checkpoint_file.obj]
    ELSE [none |-> FALSE, d |-> checkpoint_file.obj]

(***************************************************************************)
(* The scraper object (modules/scraper.py)                                 *)
(***************************************************************************)
\* TwitterScraper.__init__
TwitterScraper ==
    [tweets_count |-> 0, tweets_personales |-> 0, tweets_filtrados |-> 0,
     estadisticas |-> EstadisticasCero, tweet_ids_procesados |-> {},
     checkpoint_data |-> load_checkpoint(ArchivoNoJson("missing")),
     consecutive_errors |-> 0, blocked_status |-> FALSE]

\* the dict built by guardar_checkpoint; l is list(self.tweet_ids_procesados)
CheckpointDe(s, l) ==
    [campos |-> CamposCheckpoint,
     v |-> [tweets_count |-> s.tweets_count,
            tweets_personales |-> s.tweets_personales,
            tweets_filtrados |-> s.tweets_filtrados,
            estadisticas |-> s.estadisticas,
            tweet_ids |-> l]]

\* the mutation of guardar_checkpoint: nothing is written
guardar_checkpoint_omitido(s, checkpoint_file, l) ==
    checkpoint_file

guardar_checkpoint(s, checkpoint_file, l) ==
    save_checkpoint(checkpoint_file, CheckpointDe(s, l))

\* the mutation of RestaurarCheckpoint: the dedup snapshot is not restored
RestaurarSinIds(s, d) ==
    [s EXCEPT !.tweets_count = d.v.tweets_count,
              !.tweets_personales = Get(d, "tweets_personales", 0),
              !.tweets_filtrados = Get(d, "tweets_filtrados", 0),
              !.estadisticas = Get(d, "estadisticas", s.estadisticas)]

\* inicializar, lines 96-100: the fields taken from the loaded checkpoint
RestaurarCheckpoint(s, d) ==
    [s EXCEPT !.tweets_count = d.v.tweets_count,
              !.tweets_personales = Get(d, "tweets_personales", 0),
              !.tweets_filtrados = Get(d, "tweets_filtrados", 0),
              !.estadisticas = Get(d, "estadisticas", s.estadisticas),
              !.tweet_ids_procesados = Range(Get(d, "tweet_ids", <<>>))]

\* inicializar: authentication, then the checkpoint.  self.checkpoint_data
\* ['tweets_count'] of line 95 raises KeyError on an object without that key,
\* and the except of line 103 turns every exception into return False.
inicializar(s, checkpoint_file, auth_ok) ==
    LET r == load_checkpoint(checkpoint_file)
        s1 == [s EXCEPT !.checkpoint_data = r]
    IN IF ~auth_ok THEN [ok |-> FALSE, s |-> s]
       ELSE IF r.none \/ r.d.campos = {} THEN [ok |-> TRUE, s |-> s1]
       ELSE IF "tweets_count" \notin r.d.campos THEN [ok |-> FALSE, s |-> s1]
       ELSE [ok |-> TRUE, s |-> RestaurarCheckpoint(s1, r.d)]

\* the mutation of YaProcesado: the dedup test never finds the id
YaProcesadoNunca(s, tweet) == FALSE

\* procesar_tweet, line 262
YaProcesado(s, tweet) == tweet.id \in s.tweet_ids_procesados

\* the mutation of MarcarProcesado: the id is not added
MarcarProcesadoOmitido(s, tweet) == s

\* procesar_tweet, line 266
MarcarProcesado(s, tweet) ==
    [s EXCEPT !.tweet_ids_procesados = @ \cup {tweet.id}]

\* procesar_tweet, line 290
MotivoFiltrado(incluir, motivo, es_ecuador) ==
    IF ~incluir THEN motivo
    ELSE IF ~es_ecuador THEN "no_ecuador" ELSE "desconocido"

\* how a call of client.search_tweet / tweets.next ends: with a page, with
\* an empty result, with TooManyRequests, with another exception
Resultados == {"pagina", "vacio", "TooManyRequests", "Exception"}

Min(a, b) == IF a <= b THEN a ELSE b

\* the mutation of obtener_tweets: the first rate-limit wait is 60 seconds
obtener_tweets_desde_60(s, resultado) ==
    LET n == s.consecutive_errors + 1
    IN CASE resultado \in {"pagina", "vacio"} ->
              [s |-> [s EXCEPT !.blocked_status = FALSE,
                               !.consecutive_errors = 0],
               espera |-> 0]
         [] resultado = "TooManyRequests" ->
              [s |-> [s EXCEPT !.blocked_status = TRUE,
                               !.consecutive_errors = n],
               espera |-> Min(60 * (2 ^ (n - 1)), 3600)]
         [] resultado = "Exception" ->
              [s |-> [s EXCEPT !.blocked_status = FALSE,
                               !.consecutive_errors = n],
               espera |-> Min(30 * n, 600)]

\* the mutation of obtener_tweets: a successful call keeps the error count
obtener_tweets_sin_reset(s, resultado) ==
    LET n == s.consecutive_errors + 1
    IN CASE resultado \in {"pagina", "vacio"} ->
              [s |-> [s EXCEPT !.blocked_status = FALSE],
               espera |-> 0]
         [] resultado = "TooManyRequests" ->
              [s |-> [s EXCEPT !.blocked_status = TRUE,
                               !.consecutive_errors = n],
               espera |-> Min(60 * (2 ^ n), 3600)]
         [] resultado = "Exception" ->
              [s |-> [s EXCEPT !.blocked_status = FALSE,
                               !.consecutive_errors = n],
               espera |-> Min(30 * n, 600)]

\* obtener_tweets, lines 188-245: the scraper after the call and the seconds
\* slept in the except branch that was taken (0 when none was). The blocked
\* wait of lines 203-207 clears blocked_status before the call is made.
obtener_tweets(s, resultado) ==
    LET n == s.consecutive_errors + 1
    IN CASE resultado \in {"pagina", "vacio"} ->
              [s |-> [s EXCEPT !.blocked_status = FALSE,
                               !.consecutive_errors = 0],
               espera |-> 0]
         [] resultado = "TooManyRequests" ->
              [s |-> [s EXCEPT !.blocked_status = TRUE,
                               !.consecutive_errors = n],
               espera |-> Min(60 * (2 ^ n), 3600)]
         [] resultado = "Exception" ->
              [s |-> [s EXCEPT !.blocked_status = FALSE,
                               !.consecutive_errors = n],
               espera |-> Min(30 * n, 600)]

\* procesar_tweet, lines 268-331, on a tweet already marked as processed.
\* exps are the exporters, fs their files; l is the list of the dedup set
\* that a checkpoint of this call would write.
procesar_tweet(s, exps, fs, checkpoint_file, tweet, categoria, io, l) ==
    LET f == filtrar_tweet(tweet)
        es_ecuador == ubicacion_ecuador(tweet)
    IN IF ~f.incluir \/ ~es_ecuador
       THEN LET nr == Export("nonrelevant", exps.nonrelevant, fs,
                             [id |-> tweet.id,
                              motivo_filtrado |->
                                  MotivoFiltrado(f.incluir, f.motivo, es_ecuador)],
                             io)
            IN [s |-> [s EXCEPT !.tweets_filtrados = @ + 1],
                exps |-> [exps EXCEPT !.nonrelevant = nr.exp],
                fs |-> nr.fs,
                checkpoint_file |-> checkpoint_file,
                ret |-> FALSE]
       ELSE LET s1 == [s EXCEPT
                         !.tweets_count = @ + 1,
                         !.estadisticas[categoria] = @ + 1,
                         !.tweets_personales =
                             IF f.motivo = "expresion_personal" THEN @ + 1 ELSE @]
                tweet_data == [id |-> tweet.id, categoria |-> categoria,
                               es_personal |-> f.motivo = "expresion_personal"]
                c == Export("csv", exps.csv, fs, tweet_data, io)
                j == Export("json", exps.json, c.fs, tweet_data, io)
            IN [s |-> s1,
                exps |-> [exps EXCEPT !.csv = c.exp, !.json = j.exp],
                fs |-> j.fs,
                checkpoint_file |->
                    IF s1.tweets_count % CHECKPOINT_CADA = 0
                    THEN guardar_checkpoint(s1, checkpoint_file, l)
                    ELSE checkpoint_file,
                ret |-> TRUE]

\* main, lines 92-99: the three exporters of a run
Exporters ==
    [csv |-> BaseExporter(UMBRAL_BASE), json |-> BaseExporter(UMBRAL_BASE),
     nonrelevant |-> BaseExporter(UMBRAL_NONRELEVANT)]

(***************************************************************************)
(* State                                                                   *)
(*                                                                         *)
(* pc is the position of the process in main.py / extraer_tweets:          *)
(*   main           main() runs, scraper is still None (before line 105)   *)
(*   inicializar    the scraper exists, inicializar() has not yet reached  *)
(*                  load_checkpoint (lines 105-93)                         *)
(*   inicializado   inicializar() returned True (line 109)                 *)
(*   loop           top of the while of extraer_tweets (line 364)          *)
(*   pagina         in the for over the page (line 390)                    *)
(*   procesando     in procesar_tweet, the id added (after line 266)       *)
(*   guardar_final  extraer_tweets returned (line 121)                     *)
(*   exit_ok / exit_init / exit_error / exit_senal   the process ended     *)
(*   killed         the process was killed (SIGKILL, power loss)           *)
(* run counts the process runs; the disk (checkpoint_file, archivos,       *)
(* previos) outlives a run, everything else is the memory of one run.      *)
(* archivos are the output files of this run, previos the ids of the rows  *)
(* held by the output files of earlier runs (each run writes files named   *)
(* after its start time).  obs only observes: candidatos counts the calls  *)
(* of procesar_tweet of this run, duplicados those that returned at line   *)
(* 263, vistos the ids they were given, guardado the scraper as of the     *)
(* last completed guardar_checkpoint (the initial scraper when no          *)
(* completed checkpoint is on disk), save_ret what the three save() calls  *)
(* of main returned and save_io how the file writes of those calls ended   *)
(* (both empty until then); sano is true while no export or save was       *)
(* given a write that fails; esperas lists, for the                        *)
(* calls of obtener_tweets that failed since its last success, the cause,  *)
(* the seconds slept and whether the blocked wait came first, and          *)
(* racha_anterior is how many calls had failed in a row before that last   *)
(* success.                                                                *)
(***************************************************************************)
VARIABLES pc, run, minimum_tweets, scraper, exporters, archivos, previos,
          checkpoint_file, tweets, pagina_restante, categoria_actual,
          consultas_sin_resultados, tweets_procesados, tweet_actual, obs

vars == <<pc, run, minimum_tweets, scraper, exporters, archivos, previos,
          checkpoint_file, tweets, pagina_restante, categoria_actual,
          consultas_sin_resultados, tweets_procesados, tweet_actual, obs>>

locales == <<tweets, pagina_restante, categoria_actual,
             consultas_sin_resultados, tweets_procesados, tweet_actual>>

\* the frame of extraer_tweets is gone: its locals hold nothing any more
\* (tweet_actual keeps the tweet that was in flight)
LocalesFuera ==
    /\ tweets' = None
    /\ pagina_restante' = 0
    /\ categoria_actual' = ""
    /\ consultas_sin_resultados' = 0
    /\ tweets_procesados' = 0
    /\ UNCHANGED tweet_actual

Corriendo ==
    {"main", "inicializar", "inicializado", "loop", "pagina", "procesando",
     "guardar_final"}

Salidas == {"exit_ok", "exit_init", "exit_error", "exit_senal", "killed"}

\* the mutation of exit_code: signal_handler ends the process with status 0
exit_code_senal_cero(p) ==
    CASE p \in {"exit_ok", "exit_senal"} -> 0
      [] p \in {"exit_init", "exit_error"} -> 1

\* the status a process that ended passes to the system: what main returned
\* (main.py, lines 111, 142 and 153, handed to sys.exit at line 163) or the
\* argument of sys.exit in signal_handler (line 51)
exit_code(p) ==
    CASE p = "exit_ok" -> 0
      [] p \in {"exit_init", "exit_error", "exit_senal"} -> 1

ObsCero ==
    [candidatos |-> 0, duplicados |-> 0, vistos |-> {},
     guardado |-> TwitterScraper,
     save_ret |-> <<>>, save_io |-> <<>>, sano |-> TRUE,
     esperas |-> <<>>, racha_anterior |-> 0]

\* the ids of the rows of a sequence of records
Ids(filas) == {filas[i].id : i \in DOMAIN filas}

\* the ids of the accepted / rejected rows that the files of this run hold
AceptadosEnArchivos(fs) ==
    Ids(Filas(fs, "tweets.csv")) \cup Ids(Filas(fs, "tweets.json"))
    \cup Ids(Filas(fs, Backup("tweets.csv")))
    \cup Ids(Filas(fs, Backup("tweets.json")))

RechazadosEnArchivos(fs) ==
    Ids(Filas(fs, "nonrelevant.csv")) \cup Ids(Filas(fs, "nonrelevant.json"))
    \cup Ids(Filas(fs, Backup("nonrelevant.csv")))
    \cup Ids(Filas(fs, Backup("nonrelevant.json")))

\* list(self.tweet_ids_procesados) as the engine specifications take it
Orden == {SortedSeq(scraper.tweet_ids_procesados)}

\* the scraper fields a checkpoint carries
Progreso(s) ==
    [tweets_count |-> s.tweets_count,
     tweets_personales |-> s.tweets_personales,
     tweets_filtrados |-> s.tweets_filtrados,
     estadisticas |-> s.estadisticas,
     tweet_ids_procesados |-> s.tweet_ids_procesados]

(***************************************************************************)
(* Initial states: a process has just started; the disk holds no output    *)
(* and one of the given checkpoint files.                                  *)
(***************************************************************************)
InitCon(pc0, targets, checkpoints, scrapers) ==
    /\ pc = pc0
    /\ run = 1
    /\ minimum_tweets \in targets
    /\ scraper \in scrapers
    /\ exporters = Exporters
    /\ archivos = SinArchivos
    /\ previos = [aceptados |-> {}, rechazados |-> {}]
    /\ checkpoint_file \in checkpoints
    /\ tweets = None
    /\ pagina_restante = 0
    /\ categoria_actual = ""
    /\ consultas_sin_resultados = 0
    /\ tweets_procesados = 0
    /\ tweet_actual = <<>>
    /\ obs = ObsCero

(***************************************************************************)
(* main.py                                                                 *)
(***************************************************************************)
\* main, lines 92-105: the exporters and the scraper are created
CrearScraper ==
    /\ pc = "main"
    /\ pc' = "inicializar"
    /\ scraper' = TwitterScraper
    /\ exporters' = Exporters
    /\ UNCHANGED <<run, minimum_tweets, archivos, previos, checkpoint_file,
                   locales, obs>>

\* main, lines 109-111: inicializar(); False ends the process with code 1
Inicializar(auth_ok) ==
    /\ pc = "inicializar"
    /\ LET r == inicializar(scraper, checkpoint_file, auth_ok)
       IN /\ scraper' = r.s
          /\ pc' = IF r.ok THEN "inicializado" ELSE "exit_init"
    /\ UNCHANGED <<run, minimum_tweets, exporters, archivos, previos,
                   checkpoint_file, locales, obs>>

\* extraer_tweets, lines 357-361
ExtraerTweets ==
    /\ pc = "inicializado"
    /\ pc' = "loop"
    /\ tweets' = None
    /\ categoria_actual' = ""
    /\ consultas_sin_resultados' = 0
    /\ UNCHANGED <<run, minimum_tweets, scraper, exporters, archivos, previos,
                   checkpoint_file, pagina_restante, tweets_procesados,
                   tweet_actual, obs>>

\* the mutation of IterFin: the while ends only once tweets_count is above
\* the target
IterFin_estricto(l) ==
    /\ pc = "loop"
    /\ scraper.tweets_count > minimum_tweets
    /\ checkpoint_file' = guardar_checkpoint(scraper, checkpoint_file, l)
    /\ obs' = [obs EXCEPT !.guardado = scraper]
    /\ pc' = "guardar_final"
    /\ UNCHANGED <<run, minimum_tweets, scraper, exporters, archivos, previos>>
    /\ LocalesFuera

\* the mutation of IterFin: the while ends whatever tweets_count is
IterFin_sin_objetivo(l) ==
    /\ pc = "loop"
    /\ checkpoint_file' = guardar_checkpoint(scraper, checkpoint_file, l)
    /\ obs' = [obs EXCEPT !.guardado = scraper]
    /\ pc' = "guardar_final"
    /\ UNCHANGED <<run, minimum_tweets, scraper, exporters, archivos, previos>>
    /\ LocalesFuera

\* extraer_tweets, lines 364 and 416-426: the while ends, the finally saves
\* the checkpoint, the statistics are returned
IterFin(l) ==
    /\ pc = "loop"
    /\ scraper.tweets_count >= minimum_tweets
    /\ checkpoint_file' = guardar_checkpoint(scraper, checkpoint_file, l)
    /\ obs' = [obs EXCEPT !.guardado = scraper]
    /\ pc' = "guardar_final"
    /\ UNCHANGED <<run, minimum_tweets, scraper, exporters, archivos, previos>>
    /\ LocalesFuera

\* line 366: whether this iteration calls generar_consulta
Rota(rotar) ==
    tweets = None \/ rotar
    \/ consultas_sin_resultados >= max_consultas_sin_resultados

\* extraer_tweets, lines 364-389: an iteration whose obtener_tweets returns a
\* page of n candidates.  rotar is random.random() < 0.3, cat the category
\* generar_consulta returns.
IterPagina(rotar, cat, n) ==
    /\ pc = "loop"
    /\ scraper.tweets_count < minimum_tweets
    /\ categoria_actual' = IF Rota(rotar) THEN cat ELSE categoria_actual
    /\ consultas_sin_resultados' =
           IF Rota(rotar) THEN 0 ELSE consultas_sin_resultados
    /\ tweets' = "pagina"
    /\ pagina_restante' = n
    /\ tweets_procesados' = 0
    /\ pc' = "pagina"
    /\ scraper' = obtener_tweets(scraper, "pagina").s
    /\ obs' = [obs EXCEPT !.esperas = <<>>,
                          !.racha_anterior = scraper.consecutive_errors]
    /\ UNCHANGED <<run, minimum_tweets, exporters, archivos, previos,
                   checkpoint_file, tweet_actual>>

\* extraer_tweets, lines 364-387: an iteration whose obtener_tweets returns
\* no tweets: an empty result, or None after TooManyRequests or another
\* exception (obtener_tweets, lines 232-245)
IterSinResultadosPor(rotar, cat, resultado) ==
    /\ pc = "loop"
    /\ scraper.tweets_count < minimum_tweets
    /\ resultado \in Resultados \ {"pagina"}
    /\ categoria_actual' = IF Rota(rotar) THEN cat ELSE categoria_actual
    /\ consultas_sin_resultados' =
           (IF Rota(rotar) THEN 0 ELSE consultas_sin_resultados) + 1
    /\ tweets' = None
    /\ pc' = "loop"
    /\ LET r == obtener_tweets(scraper, resultado)
       IN /\ scraper' = r.s
          /\ obs' = IF resultado = "vacio"
                    THEN [obs EXCEPT
                            !.esperas = <<>>,
                            !.racha_anterior = scraper.consecutive_errors]
                    ELSE [obs EXCEPT
                            !.esperas =
                                Append(@, [causa |-> resultado,
                                           espera |-> r.espera,
                                           bloqueada |->
                                               scraper.blocked_status])]
    /\ UNCHANGED <<run, minimum_tweets, exporters, archivos, previos,
                   checkpoint_file, pagina_restante, tweets_procesados,
                   tweet_actual>>

\* the same, the call of obtener_tweets returning an empty result
IterSinResultados(rotar, cat) ==
    IterSinResultadosPor(rotar, cat, "vacio")

\* procesar_tweet, lines 262-263, and lines 393-398 after it: the tweet was
\* processed before
ProcesarRepetido(tweet) ==
    /\ pc = "pagina"
    /\ pagina_restante > 0
    /\ YaProcesado(scraper, tweet)
    /\ pagina_restante' = pagina_restante - 1
    /\ obs' = [obs EXCEPT !.candidatos = @ + 1, !.duplicados = @ + 1,
                          !.vistos = @ \cup {tweet.id}]
    /\ UNCHANGED <<pc, run, minimum_tweets, scraper, exporters, archivos,
                   previos, checkpoint_file, tweets, categoria_actual,
                   consultas_sin_resultados, tweets_procesados, tweet_actual>>

\* procesar_tweet, lines 262-266: a tweet not processed before is marked
ProcesarNuevo(tweet) ==
    /\ pc = "pagina"
    /\ pagina_restante > 0
    /\ ~YaProcesado(scraper, tweet)
    /\ scraper' = MarcarProcesado(scraper, tweet)
    /\ tweet_actual' = <<tweet>>
    /\ pc' = "procesando"
    /\ obs' = [obs EXCEPT !.candidatos = @ + 1,
                          !.vistos = @ \cup {tweet.id}]
    /\ UNCHANGED <<run, minimum_tweets, exporters, archivos, previos,
                   checkpoint_file, tweets, pagina_restante, categoria_actual,
                   consultas_sin_resultados, tweets_procesados>>

\* the mutation of ProcesarResto: no break at line 398
ProcesarResto_sin_break(io, l) ==
    /\ pc = "procesando"
    /\ LET r == procesar_tweet(scraper, exporters, archivos, checkpoint_file,
                               tweet_actual[1], categoria_actual, io, l)
       IN /\ scraper' = r.s
          /\ exporters' = r.exps
          /\ archivos' = r.fs
          /\ checkpoint_file' = r.checkpoint_file
          /\ tweets_procesados' = tweets_procesados + (IF r.ret THEN 1 ELSE 0)
          /\ pagina_restante' = pagina_restante - 1
          /\ obs' = IF r.ret /\ r.s.tweets_count % CHECKPOINT_CADA = 0
                    THEN [obs EXCEPT !.guardado = r.s] ELSE obs
    /\ tweet_actual' = <<>>
    /\ pc' = "pagina"
    /\ UNCHANGED <<run, minimum_tweets, previos, tweets, categoria_actual,
                   consultas_sin_resultados>>

\* procesar_tweet, lines 268-331, and lines 393-398 after it: the break of
\* line 398 drops the rest of the page
ProcesarResto(io, l) ==
    /\ pc = "procesando"
    /\ LET r == procesar_tweet(scraper, exporters, archivos, checkpoint_file,
                               tweet_actual[1], categoria_actual, io, l)
       IN /\ scraper' = r.s
          /\ exporters' = r.exps
          /\ archivos' = r.fs
          /\ checkpoint_file' = r.checkpoint_file
          /\ tweets_procesados' = tweets_procesados + (IF r.ret THEN 1 ELSE 0)
          /\ pagina_restante' =
                 IF r.s.tweets_count >= minimum_tweets THEN 0
                 ELSE pagina_restante - 1
          /\ obs' = IF r.ret /\ r.s.tweets_count % CHECKPOINT_CADA = 0
                    THEN [obs EXCEPT !.guardado = r.s] ELSE obs
    /\ tweet_actual' = <<>>
    /\ pc' = "pagina"
    /\ UNCHANGED <<run, minimum_tweets, previos, tweets, categoria_actual,
                   consultas_sin_resultados>>

\* extraer_tweets, lines 400-409: the for ended
FinPagina ==
    /\ pc = "pagina"
    /\ pagina_restante = 0
    /\ consultas_sin_resultados' =
           IF tweets_procesados = 0 THEN consultas_sin_resultados + 1
           ELSE consultas_sin_resultados
    /\ tweets' =
           IF tweets_procesados = 0
              /\ consultas_sin_resultados + 1 >= max_consultas_sin_resultados
           THEN None ELSE tweets
    /\ pc' = "loop"
    /\ UNCHANGED <<run, minimum_tweets, scraper, exporters, archivos, previos,
                   checkpoint_file, pagina_restante, categoria_actual,
                   tweets_procesados, tweet_actual, obs>>

\* an exception raised while a page is processed leaves extraer_tweets
\* through the finally of line 416 and reaches the except of main (lines
\* 144-153): the checkpoint is saved twice, main returns 1
Excepcion(l) ==
    /\ pc \in {"pagina", "procesando"}
    /\ checkpoint_file' = guardar_checkpoint(scraper, checkpoint_file, l)
    /\ obs' = [obs EXCEPT !.guardado = scraper]
    /\ pc' = "exit_error"
    /\ UNCHANGED <<run, minimum_tweets, scraper, exporters, archivos, previos>>
    /\ LocalesFuera

\* signal_handler (main.py, lines 30-51) on SIGINT or SIGTERM, at any point
\* of the run: the checkpoint if the scraper exists, then sys.exit(1); the
\* SystemExit unwinds through the finally blocks, which save the same
\* checkpoint again
Senal(l) ==
    /\ pc \in Corriendo
    /\ checkpoint_file' =
           IF pc = "main" THEN checkpoint_file
           ELSE guardar_checkpoint(scraper, checkpoint_file, l)
    /\ obs' = IF pc = "main" THEN obs ELSE [obs EXCEPT !.guardado = scraper]
    /\ pc' = "exit_senal"
    /\ UNCHANGED <<run, minimum_tweets, scraper, exporters, archivos, previos>>
    /\ LocalesFuera

\* the process is killed outside a write
Matar ==
    /\ pc \in Corriendo
    /\ pc' = "killed"
    /\ UNCHANGED <<run, minimum_tweets, scraper, exporters, archivos, previos,
                   checkpoint_file, obs>>
    /\ LocalesFuera

\* the process is killed inside save_checkpoint (utils.py, lines 140-141),
\* after open(checkpoint_file, 'w') emptied the file and before json.dump
\* wrote all of it.  A save can be running wherever the scraper exists: the
\* signal handler, the cadence of line 327 and the finally of line 416 call it.
MatarGuardando ==
    /\ pc \in Corriendo \ {"main"}
    /\ checkpoint_file' = ArchivoNoJson("truncated")
    /\ obs' = [obs EXCEPT !.guardado = TwitterScraper]
    /\ pc' = "killed"
    /\ UNCHANGED <<run, minimum_tweets, scraper, exporters, archivos, previos>>
    /\ LocalesFuera

\* main, lines 121-142: the final save() of the three exporters, return 0
GuardarFinal(io) ==
    /\ pc = "guardar_final"
    /\ LET c == Save("csv", exporters.csv, archivos, io)
           j == Save("json", exporters.json, c.fs, io)
           n == Save("nonrelevant", exporters.nonrelevant, j.fs, io)
       IN /\ archivos' = n.fs
          /\ obs' = [obs EXCEPT
                        !.save_ret = [csv |-> c.ret, json |-> j.ret,
                                      nonrelevant |-> n.ret],
                        !.save_io = io,
                        !.sano = @ /\ io = IoOk]
    /\ pc' = "exit_ok"
    /\ UNCHANGED <<run, minimum_tweets, scraper, exporters, previos,
                   checkpoint_file, locales>>

\* the operator starts the program again: a new process, the same disk
Reiniciar ==
    /\ pc \in Salidas
    /\ run < MaxRuns
    /\ run' = run + 1
    /\ pc' = "main"
    /\ previos' =
           [aceptados |-> previos.aceptados \cup AceptadosEnArchivos(archivos),
            rechazados |-> previos.rechazados \cup RechazadosEnArchivos(archivos)]
    /\ archivos' = SinArchivos
    /\ scraper' = TwitterScraper
    /\ exporters' = Exporters
    /\ tweets' = None
    /\ pagina_restante' = 0
    /\ categoria_actual' = ""
    /\ consultas_sin_resultados' = 0
    /\ tweets_procesados' = 0
    /\ tweet_actual' = <<>>
    /\ obs' = [ObsCero EXCEPT !.guardado = obs.guardado]
    /\ UNCHANGED <<minimum_tweets, checkpoint_file>>

(***************************************************************************)
(* Spec: the engine on a small universe of tweets                          *)
(***************************************************************************)
\* the checkpoint files a first run can find: none, one that is not JSON,
\* the empty JSON object, and a JSON object without tweets_count
CheckpointsIniciales ==
    { ArchivoNoJson("missing"), ArchivoNoJson("garbage"),
      ArchivoJson([campos |-> {}, v |-> ValoresCero]),
      ArchivoJson([campos |-> {"tweets_personales"},
                   v |-> [ValoresCero EXCEPT !.tweets_personales = 1]]) }

\* the candidates the transport can deliver next: the tweets with the
\* smallest id never processed, and every tweet processed before
Candidatos(max) ==
    LET libres == (1..max) \ scraper.tweet_ids_procesados
        nuevo == CHOOSE i \in libres : \A j \in libres : i <= j
    IN (IF libres = {} THEN {} ELSE TweetsConId(nuevo))
       \cup {TweetPersonal(i) : i \in scraper.tweet_ids_procesados}

Categorias == {CategoriasManifestacion[i] : i \in 1..MaxCategorias}

Init == InitCon("main", 1..MaxTarget, CheckpointsIniciales, {TwitterScraper})

Next ==
    \/ CrearScraper
    \/ \E auth_ok \in BOOLEAN : Inicializar(auth_ok)
    \/ ExtraerTweets
    \/ \E l \in Orden : IterFin(l)
    \/ \E rotar \in BOOLEAN, cat \in Categorias, n \in 1..MaxPage :
           obs.candidatos + n <= MaxCandidatos /\ IterPagina(rotar, cat, n)
    \/ \E rotar \in BOOLEAN, cat \in Categorias :
           consultas_sin_resultados < MaxVacias
           /\ IterSinResultados(rotar, cat)
    \/ \E tweet \in Candidatos(MaxId) : ProcesarRepetido(tweet)
    \/ \E tweet \in Candidatos(MaxId) : ProcesarNuevo(tweet)
    \/ \E l \in Orden : ProcesarResto(IoOk, l)
    \/ FinPagina
    \/ \E l \in Orden : Excepcion(l)
    \/ \E l \in Orden : Senal(l)
    \/ Matar
    \/ MatarGuardando
    \/ GuardarFinal(IoOk)
    \/ Reiniciar

Spec == Init /\ [][Next]_vars

(***************************************************************************)
(* SpecLargo: the engine fed with new personal tweets from Ecuador only,   *)
(* up to a target beyond two checkpoint cadences                           *)
(***************************************************************************)
\* the next tweet of the stream: the smallest id never processed
TweetSiguiente ==
    LET libres == (1..(MaxLargo + MaxRuns)) \ scraper.tweet_ids_procesados
    IN {TweetPersonal(i) : i \in {j \in libres : \A k \in libres : j <= k}}

InitLargo ==
    InitCon("main", {MaxLargo}, {ArchivoNoJson("missing")}, {TwitterScraper})

NextLargo ==
    \/ CrearScraper
    \/ Inicializar(TRUE)
    \/ ExtraerTweets
    \/ \E l \in Orden : IterFin(l)
    \/ IterPagina(FALSE, CategoriasManifestacion[1], MaxPage)
    \/ \E tweet \in TweetSiguiente : ProcesarNuevo(tweet)
    \/ \E l \in Orden : ProcesarResto(IoOk, l)
    \/ FinPagina
    \/ \E l \in Orden : Senal(l)
    \/ Matar
    \/ MatarGuardando
    \/ GuardarFinal(IoOk)
    \/ Reiniciar

SpecLargo == InitLargo /\ [][NextLargo]_vars

(***************************************************************************)
(* SpecSink: the three exporters alone, fed up to just past their          *)
(* auto-save thresholds, then saved explicitly                             *)
(***************************************************************************)
InitSink ==
    InitCon("sink", {1}, {ArchivoNoJson("missing")}, {TwitterScraper})

\* procesar_tweet, lines 319-320: csv_exporter.export, json_exporter.export
SinkAceptadoCon(io) ==
    /\ pc = "sink"
    /\ Len(exporters.csv.data) < UMBRAL_BASE + MaxExtra
    /\ LET fila == [id |-> Len(exporters.csv.data) + 1,
                    categoria |-> CategoriasManifestacion[1],
                    es_personal |-> TRUE]
           c == Export("csv", exporters.csv, archivos, fila, io)
           j == Export("json", exporters.json, c.fs, fila, io)
       IN /\ exporters' = [exporters EXCEPT !.csv = c.exp, !.json = j.exp]
          /\ archivos' = j.fs
    /\ obs' = [obs EXCEPT !.sano = @ /\ io = IoOk]
    /\ UNCHANGED <<pc, run, minimum_tweets, scraper, previos, checkpoint_file,
                   locales>>

\* the same with every file write succeeding
SinkAceptado ==
    SinkAceptadoCon(IoOk)

\* procesar_tweet, lines 282-293: nonrelevant_exporter.export
SinkRechazadoCon(io) ==
    /\ pc = "sink"
    /\ Len(exporters.nonrelevant.data) < UMBRAL_NONRELEVANT + MaxExtra
    /\ LET fila == [id |-> Len(exporters.nonrelevant.data) + 1,
                    motivo_filtrado |-> "retweet"]
           n == Export("nonrelevant", exporters.nonrelevant, archivos, fila,
                       io)
       IN /\ exporters' = [exporters EXCEPT !.nonrelevant = n.exp]
          /\ archivos' = n.fs
    /\ obs' = [obs EXCEPT !.sano = @ /\ io = IoOk]
    /\ UNCHANGED <<pc, run, minimum_tweets, scraper, previos, checkpoint_file,
                   locales>>

\* the same with every file write succeeding
SinkRechazado ==
    SinkRechazadoCon(IoOk)

\* the feeding ends; the explicit save() of main follows
SinkFin ==
    /\ pc = "sink"
    /\ pc' = "guardar_final"
    /\ UNCHANGED <<run, minimum_tweets, scraper, exporters, archivos, previos,
                   checkpoint_file, locales, obs>>

NextSink ==
    \/ SinkAceptado
    \/ SinkRechazado
    \/ SinkFin
    \/ GuardarFinal(IoOk)

SpecSink == InitSink /\ [][NextSink]_vars

(***************************************************************************)
(* The exporters with failing file writes: a run that has buffered one     *)
(* record less than each auto-save threshold, whose following writes end   *)
(* in every way open() and the writer can end.                             *)
(***************************************************************************)
\* how one open-and-write ends: done, open() raises, the writer raises
Modos == {"ok", "open_fails", "write_fails"}

\* the files of each exporter
NombresDe(clase) ==
    CASE clase = "csv" -> {"tweets.csv", Backup("tweets.csv")}
      [] clase = "json" -> {"tweets.json", Backup("tweets.json")}
      [] clase = "nonrelevant" ->
           {"nonrelevant.csv", Backup("nonrelevant.csv"),
            "nonrelevant.json", Backup("nonrelevant.json")}

\* every way the writes to the files in S can end, the others succeeding
IoSobre(S) ==
    {[n \in Nombres |-> IF n \in S THEN f[n] ELSE "ok"] : f \in [S -> Modos]}

\* one way for all the primary files and one for all the fallback files
IoUniformes ==
    {[n \in Nombres |-> IF n \in Primarios THEN p ELSE b] :
        p \in Modos, b \in Modos}

\* procesar_tweet, lines 297-320, called UMBRAL_BASE - 1 times
FilasAceptadas ==
    [i \in 1..(UMBRAL_BASE - 1) |->
        [id |-> i, categoria |-> CategoriasManifestacion[1],
         es_personal |-> TRUE]]

\* procesar_tweet, lines 277-295, called UMBRAL_NONRELEVANT - 1 times
FilasRechazadas ==
    [i \in 1..(UMBRAL_NONRELEVANT - 1) |->
        [id |-> i, motivo_filtrado |-> "retweet"]]

InitFallo ==
    /\ pc = "sink"
    /\ run = 1
    /\ minimum_tweets = 1
    /\ scraper = TwitterScraper
    /\ exporters =
          [csv |-> [Exporters.csv EXCEPT !.data = FilasAceptadas],
           json |-> [Exporters.json EXCEPT !.data = FilasAceptadas],
           nonrelevant |->
              [Exporters.nonrelevant EXCEPT !.data = FilasRechazadas]]
    /\ archivos = SinArchivos
    /\ previos = [aceptados |-> {}, rechazados |-> {}]
    /\ checkpoint_file = ArchivoNoJson("missing")
    /\ tweets = None
    /\ pagina_restante = 0
    /\ categoria_actual = ""
    /\ consultas_sin_resultados = 0
    /\ tweets_procesados = 0
    /\ tweet_actual = <<>>
    /\ obs = ObsCero

NextFallo ==
    \/ \E io \in IoSobre(NombresDe("csv") \cup NombresDe("json")) :
          SinkAceptadoCon(io)
    \/ \E io \in IoSobre(NombresDe("nonrelevant")) : SinkRechazadoCon(io)
    \/ SinkFin
    \/ \E io \in IoUniformes : GuardarFinal(io)

SpecFallo == InitFallo /\ [][NextFallo]_vars

(***************************************************************************)
(* The filters on tweet objects: the engine is given tweets whose texts    *)
(* and author fields are spelled out, and filters them by the matching of  *)
(* filters.py.                                                             *)
(***************************************************************************)
\* how many tweets one behaviour of SpecFiltro processes
MaxFiltrados == 2

\* the tweet objects the transport may deliver in SpecFiltro; the id of each
\* is its position
Catalogo ==
    <<
       TweetCrudo(1, "no aguanto más este estrés", "Ana", "", "Quito",
                  FALSE, "t0"),
       TweetCrudo(2, "qué lindo día", "Ana", "", "Quito",
                  FALSE, "t0"),
       TweetCrudo(3, "estoy harta de los apagones", "Canal Oficial", "", "Quito",
                  FALSE, None),
       TweetCrudo(4, "se reportan apagones", "Canal Oficial", "", "Quito",
                  FALSE, None),
       TweetCrudo(5, "qué lindo día", "Ana", "", "Madrid",
                  TRUE, None),
       TweetCrudo(6, "estoy harta de los apagones", "Ana", "", "Madrid",
                  FALSE, None),
       TweetCrudo(7, "qué lindo día", "Ana", "", "Quito",
                  FALSE, None),
       TweetCrudo(8, "apagones y ansiedad", "Ana", "", "Quito",
                  FALSE, None),
       TweetCrudo(9, "Comunicado oficial: cortes de luz", "Ana", "", "Quito",
                  FALSE, None),
       TweetCrudo(10, "Urgente, estoy sin luz", "Ana", "", "Quito",
                  FALSE, None),
       TweetCrudo(11, "qué lindo día", "Ana", "", "Madrid",
                  FALSE, "t0"),
       TweetCrudo(12, "qué lindo día", "Canal Oficial", "", "Quito",
                  FALSE, "t0"),
       TweetCrudo(13, "otra vez sin electricidad", "Ana", "", "Madrid",
                  FALSE, None),
       TweetCrudo(14, "qué lindo día", "Pamela", "", "Quito",
                  FALSE, None),
       TweetCrudo(15, "se reportan apagones", "Canal Oficial", "", "Madrid",
                  FALSE, None),
       TweetCrudo(16, "Comunicado oficial: cortes de luz", "Ana", "", "Madrid",
                  FALSE, None),
       TweetCrudo(17, "estoy harta de los apagones", "Ana", "", "Quito",
                  TRUE, None),
       TweetCrudo(18, "qué lindo día", "Ana", "periodista de radio", "Quito",
                  FALSE, None),
       TweetCrudo(19, "no aguanto más", "Canal Oficial", "", "Quito",
                  FALSE, None),
       TweetCrudo(20, "estoy harta de los apagones", "Ana", "", "Quito",
                  FALSE, "t0")
    >>

\* filtrar_tweet and ubicacion_ecuador make their tests once per tweet
\* object: the outcomes for each tweet of the catalogue
Rasgos == [i \in DOMAIN Catalogo |-> Analizar(Catalogo[i])]

InitFiltro ==
    InitCon("main", {MaxFiltrados}, {ArchivoNoJson("missing")},
            {TwitterScraper})

NextFiltro ==
    \/ CrearScraper
    \/ Inicializar(TRUE)
    \/ ExtraerTweets
    \/ \E l \in Orden : IterFin(l)
    \/ obs.candidatos < MaxFiltrados
       /\ IterPagina(FALSE, CategoriasManifestacion[1], 1)
    \/ \E i \in DOMAIN Catalogo : ProcesarNuevo(Rasgos[i])
    \/ \E l \in Orden : ProcesarResto(IoOk, l)
    \/ FinPagina
    \/ GuardarFinal(IoOk)

SpecFiltro == InitFiltro /\ [][NextFiltro]_vars

(***************************************************************************)
(* The waits of obtener_tweets: the engine with transport calls that end   *)
(* with TooManyRequests or with another exception.                         *)
(***************************************************************************)
\* how many calls of obtener_tweets fail in a row
MaxErrores == 7

\* the tweets delivered in SpecBackoff: a retweet and a reply without signal
TweetsRechazados == {Rasgos[5], Rasgos[11]}

InitBackoff ==
    InitCon("main", {1}, {ArchivoNoJson("missing")}, {TwitterScraper})

NextBackoff ==
    \/ CrearScraper
    \/ Inicializar(TRUE)
    \/ ExtraerTweets
    \/ \E rotar \in BOOLEAN, cat \in Categorias :
          \E resultado \in {"TooManyRequests", "Exception"} :
              /\ Len(obs.esperas) < MaxErrores
              /\ IterSinResultadosPor(rotar, cat, resultado)
    \/ \E rotar \in BOOLEAN, cat \in Categorias : IterSinResultados(rotar, cat)
    \/ \E rotar \in BOOLEAN, cat \in Categorias :
          obs.candidatos < MaxFiltrados /\ IterPagina(rotar, cat, 1)
    \/ \E tweet \in TweetsRechazados : ProcesarRepetido(tweet)
    \/ \E tweet \in TweetsRechazados : ProcesarNuevo(tweet)
    \/ \E l \in Orden : ProcesarResto(IoOk, l)
    \/ FinPagina

SpecBackoff == InitBackoff /\ [][NextBackoff]_vars

(***************************************************************************)
(* SpecConsulta: the queries of generar_consulta.  obs has one more field, *)
(* consulta, the local consulta_actual of extraer_tweets.                  *)
(***************************************************************************)
\* how many of the keywords of a list random.choice draws in the composed
\* strategy (every predefined pair and every category is drawn)
MaxPalabras == 2

\* what generar_consulta returns for each of its draws
Consultas ==
    {generar_consulta(Eleccion(TRUE, i, 1, 1, 1, 1)) :
         i \in DOMAIN COMBINACIONES_BUSQUEDA}
    \cup {generar_consulta(Eleccion(FALSE, 1, crisis, contexto, c, m)) :
              crisis \in 1..MaxPalabras, contexto \in 1..MaxPalabras,
              c \in DOMAIN CategoriasManifestacion, m \in 1..MaxPalabras}

InitConsulta ==
    /\ pc = "main"
    /\ run = 1
    /\ minimum_tweets = 1
    /\ scraper = TwitterScraper
    /\ exporters = Exporters
    /\ archivos = SinArchivos
    /\ previos = [aceptados |-> {}, rechazados |-> {}]
    /\ checkpoint_file = ArchivoNoJson("missing")
    /\ tweets = None
    /\ pagina_restante = 0
    /\ categoria_actual = ""
    /\ consultas_sin_resultados = 0
    /\ tweets_procesados = 0
    /\ tweet_actual = <<>>
    /\ obs = ObsCero @@ [consulta |-> ""]

\* extraer_tweets, lines 364-389: an iteration, q being what generar_consulta
\* returns when line 366 calls it; resultado is a page of one candidate or an
\* empty result
IterConsulta(rotar, q, resultado) ==
    /\ pc = "loop"
    /\ scraper.tweets_count < minimum_tweets
    /\ resultado \in {"pagina", "vacio"}
    /\ categoria_actual' =
           IF Rota(rotar) THEN q.categoria ELSE categoria_actual
    /\ obs' = [obs EXCEPT
                 !.consulta = IF Rota(rotar) THEN q.consulta ELSE @,
                 !.esperas = <<>>,
                 !.racha_anterior = scraper.consecutive_errors]
    /\ consultas_sin_resultados' =
           (IF Rota(rotar) THEN 0 ELSE consultas_sin_resultados)
           + (IF resultado = "vacio" THEN 1 ELSE 0)
    /\ tweets' = IF resultado = "vacio" THEN None ELSE "pagina"
    /\ pagina_restante' = IF resultado = "vacio" THEN pagina_restante ELSE 1
    /\ tweets_procesados' =
           IF resultado = "vacio" THEN tweets_procesados ELSE 0
    /\ pc' = IF resultado = "vacio" THEN "loop" ELSE "pagina"
    /\ scraper' = obtener_tweets(scraper, resultado).s
    /\ UNCHANGED <<run, minimum_tweets, exporters, archivos, previos,
                   checkpoint_file, tweet_actual>>

NextConsulta ==
    \/ CrearScraper
    \/ Inicializar(TRUE)
    \/ ExtraerTweets
    \/ \E rotar \in BOOLEAN, q \in Consultas :
          \E resultado \in {"pagina", "vacio"} :
              /\ resultado = "pagina" => obs.candidatos < MaxFiltrados
              /\ IterConsulta(rotar, q, resultado)
    \/ \E tweet \in {Rasgos[1], Rasgos[5]} : ProcesarRepetido(tweet)
    \/ \E tweet \in {Rasgos[1], Rasgos[5]} : ProcesarNuevo(tweet)
    \/ \E l \in Orden : ProcesarResto(IoOk, l)
    \/ FinPagina
    \/ \E l \in Orden : IterFin(l)

SpecConsulta == InitConsulta /\ [][NextConsulta]_vars

(***************************************************************************)
(* SpecLogin: the authentication of inicializar.  obs has one more field,  *)
(* login: how many times client.login was called in this initialization,   *)
(* the seconds slept between the calls, and whether a _login_with_retry    *)
(* ran out of attempts.                                                    *)
(***************************************************************************)
\* _login_with_retry, line 107: the default of max_retries
max_retries == 3

\* _login_with_retry, lines 107-143.  resultados[k] says whether the k-th
\* call of client.login of this initialization succeeds; hechos calls were
\* made before.  agotado: the exception of the last attempt was raised again.
login_with_retry(resultados, hechos) ==
    LET exitos == {attempt \in 0..max_retries - 1 :
                       resultados[hechos + attempt + 1]}
        ultimo == IF exitos = {} THEN max_retries - 1
                  ELSE CHOOSE a \in exitos : \A b \in exitos : a <= b
    IN [agotado |-> exitos = {},
        intentos |-> ultimo + 1,
        esperas |-> [attempt \in 1..ultimo |-> 30 * attempt]]

\* what one call of inicializar meets: the cookies file (absent, loaded, or
\* load_cookies raises), whether get_home_timeline succeeds, and how the
\* calls of client.login end
EntradasLogin ==
    [cookies : {"ausente", "cargadas", "error"},
     verificacion : BOOLEAN,
     login : [1..2 * max_retries -> BOOLEAN]]

\* inicializar, lines 63-90 and 103-105: the authentication
Autenticar(entrada) ==
    LET nada == [agotado |-> FALSE, intentos |-> 0, esperas |-> <<>>]
        primero == IF entrada.cookies = "cargadas" THEN nada
                   ELSE login_with_retry(entrada.login, 0)
        respaldo == IF primero.agotado \/ entrada.verificacion THEN nada
                    ELSE login_with_retry(entrada.login, primero.intentos)
    IN [ok |-> ~primero.agotado /\ ~respaldo.agotado,
        agotado |-> primero.agotado \/ respaldo.agotado,
        intentos |-> primero.intentos + respaldo.intentos,
        esperas |-> primero.esperas \o respaldo.esperas]

InitLogin ==
    /\ pc = "main"
    /\ run = 1
    /\ minimum_tweets = 1
    /\ scraper = TwitterScraper
    /\ exporters = Exporters
    /\ archivos = SinArchivos
    /\ previos = [aceptados |-> {}, rechazados |-> {}]
    /\ checkpoint_file = ArchivoNoJson("missing")
    /\ tweets = None
    /\ pagina_restante = 0
    /\ categoria_actual = ""
    /\ consultas_sin_resultados = 0
    /\ tweets_procesados = 0
    /\ tweet_actual = <<>>
    /\ obs = ObsCero
             @@ [login |-> [ok |-> FALSE, agotado |-> FALSE, intentos |-> 0,
                            esperas |-> <<>>]]

\* main, lines 109-111, and inicializar, lines 56-105
InicializarLogin(entrada) ==
    /\ pc = "inicializar"
    /\ LET a == Autenticar(entrada)
           r == inicializar(scraper, checkpoint_file, a.ok)
       IN /\ scraper' = r.s
          /\ pc' = IF r.ok THEN "inicializado" ELSE "exit_init"
          /\ obs' = [obs EXCEPT !.login = a]
    /\ UNCHANGED <<run, minimum_tweets, exporters, archivos, previos,
                   checkpoint_file, locales>>

NextLogin ==
    \/ CrearScraper
    \/ \E entrada \in EntradasLogin : InicializarLogin(entrada)
    \/ ExtraerTweets
    \/ \E rotar \in BOOLEAN, cat \in Categorias : IterPagina(rotar, cat, 1)
    \/ ProcesarNuevo(TweetPersonal(1))
    \/ \E l \in Orden : ProcesarResto(IoOk, l)
    \/ FinPagina
    \/ \E l \in Orden : IterFin(l)
    \/ GuardarFinal(IoOk)
    \/ \E l \in Orden : Senal(l)

SpecLogin == InitLogin /\ [][NextLogin]_vars

(***************************************************************************)
(* SpecProgreso: one run without signals, with calls that fail or come     *)
(* back empty, pages with rejected and with repeated tweets, and rotations.*)
(* Fairness: the process runs on (every sleep of obtener_tweets is finite: *)
(* at most 3600 seconds after a failure, at most 900 while blocked), the   *)
(* transport serves a page again and again, and a page offers a tweet that *)
(* is new and passes the filters again and again.                          *)
(***************************************************************************)
\* how many calls of obtener_tweets fail in a row, and how many repeated
\* tweets a run is served
MaxFallos == 2

InitProgreso ==
    InitCon("main", 1..MaxTarget, {ArchivoNoJson("missing")}, {TwitterScraper})

\* obtener_tweets returns a page of candidates
PaginaServida ==
    \E rotar \in BOOLEAN, cat \in Categorias, n \in 1..MaxPage :
        IterPagina(rotar, cat, n)

\* the next candidate of the page is new and passes the filters
CandidatoFresco ==
    \E tweet \in TweetSiguiente : ProcesarNuevo(tweet)

NextProgreso ==
    \/ CrearScraper
    \/ Inicializar(TRUE)
    \/ ExtraerTweets
    \/ \E rotar \in BOOLEAN, cat \in Categorias :
          \E resultado \in {"TooManyRequests", "Exception"} :
              /\ Len(obs.esperas) < MaxFallos
              /\ IterSinResultadosPor(rotar, cat, resultado)
    \/ \E rotar \in BOOLEAN, cat \in Categorias : IterSinResultados(rotar, cat)
    \/ PaginaServida
    \/ \E tweet \in TweetsRechazados : ProcesarNuevo(tweet)
    \/ \E tweet \in TweetsRechazados :
          obs.duplicados < MaxFallos /\ ProcesarRepetido(tweet)
    \/ CandidatoFresco
    \/ \E l \in Orden : ProcesarResto(IoOk, l)
    \/ FinPagina
    \/ \E l \in Orden : IterFin(l)

SpecProgreso ==
    /\ InitProgreso
    /\ [][NextProgreso]_vars
    /\ WF_vars(NextProgreso)
    /\ SF_vars(PaginaServida)
    /\ SF_vars(CandidatoFresco)

(***************************************************************************)
(* SpecAtribucion: the query a page comes from.  obs has two more fields:  *)
(* consulta, the local consulta_actual of extraer_tweets, and busqueda,    *)
(* the query and category of the call of client.search_tweet that opened   *)
(* the cursor held in tweets (obtener_tweets, lines 219-226:               *)
(* search_tweet(query) when tweets is None, tweets.next() otherwise).      *)
(***************************************************************************)
InitAtribucion ==
    /\ pc = "main"
    /\ run = 1
    /\ minimum_tweets \in 1..MaxTarget
    /\ scraper = TwitterScraper
    /\ exporters = Exporters
    /\ archivos = SinArchivos
    /\ previos = [aceptados |-> {}, rechazados |-> {}]
    /\ checkpoint_file = ArchivoNoJson("missing")
    /\ tweets = None
    /\ pagina_restante = 0
    /\ categoria_actual = ""
    /\ consultas_sin_resultados = 0
    /\ tweets_procesados = 0
    /\ tweet_actual = <<>>
    /\ obs = ObsCero
             @@ [consulta |-> "",
                 busqueda |-> [consulta |-> "", categoria |-> ""]]

\* extraer_tweets, lines 364-389, with obtener_tweets, lines 218-230: an
\* iteration, q being what generar_consulta returns when line 366 calls it;
\* resultado is a page of one candidate or an empty result
IterAtribucion(rotar, q, resultado) ==
    /\ pc = "loop"
    /\ scraper.tweets_count < minimum_tweets
    /\ resultado \in {"pagina", "vacio"}
    /\ categoria_actual' =
           IF Rota(rotar) THEN q.categoria ELSE categoria_actual
    /\ obs' = [obs EXCEPT
                 !.consulta = IF Rota(rotar) THEN q.consulta ELSE @,
                 !.busqueda = IF tweets = None THEN q ELSE @,
                 !.esperas = <<>>,
                 !.racha_anterior = scraper.consecutive_errors]
    /\ consultas_sin_resultados' =
           (IF Rota(rotar) THEN 0 ELSE consultas_sin_resultados)
           + (IF resultado = "vacio" THEN 1 ELSE 0)
    /\ tweets' = IF resultado = "vacio" THEN None ELSE "pagina"
    /\ pagina_restante' = IF resultado = "vacio" THEN pagina_restante ELSE 1
    /\ tweets_procesados' =
           IF resultado = "vacio" THEN tweets_procesados ELSE 0
    /\ pc' = IF resultado = "vacio" THEN "loop" ELSE "pagina"
    /\ scraper' = obtener_tweets(scraper, resultado).s
    /\ UNCHANGED <<run, minimum_tweets, exporters, archivos, previos,
                   checkpoint_file, tweet_actual>>

NextAtribucion ==
    \/ CrearScraper
    \/ Inicializar(TRUE)
    \/ ExtraerTweets
    \/ \E rotar \in BOOLEAN, c \in DOMAIN CategoriasManifestacion :
          \E resultado \in {"pagina", "vacio"} :
              /\ resultado = "pagina" => obs.candidatos <= MaxFiltrados
              /\ IterAtribucion(rotar,
                                generar_consulta(
                                    Eleccion(FALSE, 1, 1, 1, c, 1)),
                                resultado)
    \/ \E tweet \in {Rasgos[1], Rasgos[5], Rasgos[7]} : ProcesarRepetido(tweet)
    \/ \E tweet \in {Rasgos[1], Rasgos[5], Rasgos[7]} : ProcesarNuevo(tweet)
    \/ \E l \in Orden : ProcesarResto(IoOk, l)
    \/ FinPagina
    \/ \E l \in Orden : IterFin(l)

SpecAtribucion == InitAtribucion /\ [][NextAtribucion]_vars

(***************************************************************************)
(* SpecCkpt: a scraper with any progress saves its checkpoint, with the    *)
(* ids listed in any order, and the next process loads it                  *)
(***************************************************************************)
ProgresosIniciales ==
    { [TwitterScraper EXCEPT
          !.tweets_count = c, !.tweets_personales = p,
          !.tweets_filtrados = f,
          !.estadisticas = [EstadisticasCero EXCEPT
                               ![CategoriasManifestacion[1]] = c],
          !.tweet_ids_procesados = ids] :
        c \in 0..MaxCampo, p \in 0..MaxCampo, f \in 0..MaxCampo,
        ids \in SUBSET (1..MaxSnapshot) }

InitCkpt ==
    InitCon("loop", {MaxCampo + 1}, {ArchivoNoJson("missing")},
            {s \in ProgresosIniciales : s.tweets_personales <= s.tweets_count})

NextCkpt ==
    \/ \E l \in Listas(scraper.tweet_ids_procesados) : Senal(l)
    \/ Reiniciar
    \/ CrearScraper
    \/ Inicializar(TRUE)

SpecCkpt == InitCkpt /\ [][NextCkpt]_vars

(***************************************************************************)
(* SpecPlaywright: extract_tweets of the Playwright Scraper (script.py)    *)
(* for one keyword.  The state is held in the variables of the module:     *)
(* scraper is the TwitterScraper object of script.py (seen_tweets,         *)
(* should_stop) together with the locals of the running extract_tweets     *)
(* (tweets_buffer, retry_count, same_count_attempts, target_tweets,        *)
(* new_tweets_found); archivos is the list of the rows of the file at      *)
(* csv_path; pagina_restante counts the elements of tweet_elements the for *)
(* of line 358 has not yet taken; pc is "while" (line 328), "for" (line    *)
(* 358), "break" (line 429) or "return" (line 450).  A tweet is the hash   *)
(* of its text and date (line 374); the page delivers the hashes 1, 2, ... *)
(* obs holds the hashes of the excluded accounts (excluidos: all the other *)
(* hashes of seen_tweets were appended to tweets_buffer) and the value     *)
(* extract_tweets returned (retorno, -1 until then).                       *)
(***************************************************************************)
\* CONFIG['limits'] (script.py, lines 43-49)
min_tweets_per_keyword == 300

max_tweets_per_keyword == 500

limits_max_retries == 3

batch_size == 50

\* DataFrame.drop_duplicates: the first row of every value is kept
drop_duplicates(batch) ==
    LET Primera(i) == \A j \in 1..(i - 1) : batch[j] # batch[i]
        indices == SelectSeq([i \in 1..Len(batch) |-> i], Primera)
    IN  [k \in 1..Len(indices) |-> batch[indices[k]]]

\* save_batch_to_csv (script.py, lines 194-210); io is how to_csv ends
save_batch_to_csv(batch, file, io) ==
    IF batch = <<>> THEN [ok |-> TRUE, file |-> file]
    ELSE IF io = "ok" THEN [ok |-> TRUE, file |-> file \o drop_duplicates(batch)]
    ELSE [ok |-> FALSE, file |-> file]

\* extract_tweets has drawn target_tweets and is at its while (lines 309-328)
InitPlaywright ==
    /\ pc = "while"
    /\ \E target \in {min_tweets_per_keyword, max_tweets_per_keyword} :
           scraper = [seen_tweets |-> {}, should_stop |-> FALSE,
                      tweets_buffer |-> <<>>, retry_count |-> 0,
                      same_count_attempts |-> 0, target_tweets |-> target,
                      new_tweets_found |-> 0]
    /\ archivos = <<>>
    /\ pagina_restante = 0
    /\ obs = [excluidos |-> {}, retorno |-> -1]
    /\ run = 1
    /\ minimum_tweets = 0
    /\ exporters = <<>>
    /\ previos = {}
    /\ checkpoint_file = ArchivoNoJson("missing")
    /\ tweets = None
    /\ categoria_actual = ""
    /\ consultas_sin_resultados = 0
    /\ tweets_procesados = 0
    /\ tweet_actual = <<>>

\* the condition of the while (lines 328-330)
SigueWhile ==
    /\ Len(scraper.tweets_buffer) < scraper.target_tweets
    /\ scraper.retry_count < limits_max_retries
    /\ ~scraper.should_stop

\* an iteration that ends in retry_count += 1 and continue: the search of
\* line 336 failed, the page was reloaded for inactivity (340-346), no
\* article was found (351-355) or an exception was raised (440-444)
Reintento ==
    /\ pc = "while"
    /\ SigueWhile
    /\ scraper' = [scraper EXCEPT !.retry_count = @ + 1]
    /\ UNCHANGED <<pc, archivos, pagina_restante, obs>>
    /\ UNCHANGED <<run, minimum_tweets, exporters, previos, checkpoint_file, tweets, categoria_actual, consultas_sin_resultados, tweets_procesados, tweet_actual>>

\* lines 348-356: the page has n articles
PaginaDeArticulos(n) ==
    /\ pc = "while"
    /\ SigueWhile
    /\ scraper' = [scraper EXCEPT !.new_tweets_found = 0]
    /\ pagina_restante' = n
    /\ pc' = "for"
    /\ UNCHANGED <<archivos, obs>>
    /\ UNCHANGED <<run, minimum_tweets, exporters, previos, checkpoint_file, tweets, categoria_actual, consultas_sin_resultados, tweets_procesados, tweet_actual>>

\* the body of the for (lines 358-420) on one article: omitido (no text, a
\* short text, a hash already seen, an exception), excluido (a new hash of
\* an excluded account) or nuevo (appended; a full batch is saved with io)
Articulo(clase, io) ==
    /\ pc = "for"
    /\ pagina_restante > 0
    /\ clase = "nuevo" => Cardinality(scraper.seen_tweets) < MaxHashes
    /\ clase = "excluido" => Cardinality(scraper.seen_tweets) < MaxExcluidos
    /\ LET tweet_hash == Cardinality(scraper.seen_tweets) + 1
           buffer == Append(scraper.tweets_buffer, tweet_hash)
           lleno == Len(buffer) % batch_size = 0
           r == save_batch_to_csv(buffer, archivos, io)
           queda == IF lleno THEN <<>> ELSE buffer
       IN  CASE clase = "omitido" ->
                    /\ pagina_restante' = pagina_restante - 1
                    /\ UNCHANGED <<scraper, archivos, obs>>
             [] clase = "excluido" ->
                    /\ scraper' = [scraper EXCEPT !.seen_tweets = @ \cup {tweet_hash}]
                    /\ obs' = [obs EXCEPT !.excluidos = @ \cup {tweet_hash}]
                    /\ pagina_restante' = pagina_restante - 1
                    /\ UNCHANGED archivos
             [] clase = "nuevo" ->
                    /\ scraper' = [scraper EXCEPT
                           !.seen_tweets = @ \cup {tweet_hash},
                           !.new_tweets_found = @ + 1,
                           !.retry_count = IF lleno /\ ~r.ok THEN @ + 1 ELSE @,
                           !.tweets_buffer = queda]
                    /\ archivos' = IF lleno THEN r.file ELSE archivos
                    /\ UNCHANGED obs
                    /\ pagina_restante' =
                           IF Len(queda) >= scraper.target_tweets THEN 0
                           ELSE pagina_restante - 1
    /\ UNCHANGED pc
    /\ UNCHANGED <<run, minimum_tweets, exporters, previos, checkpoint_file, tweets, categoria_actual, consultas_sin_resultados, tweets_procesados, tweet_actual>>

\* after the for (lines 422-438): same_count_attempts, and at its third
\* page without a new tweet the search in the other mode, whose failure
\* breaks the while
FinArticulos(search_ok) ==
    /\ pc = "for"
    /\ pagina_restante = 0
    /\ LET cambia == scraper.new_tweets_found = 0
                     /\ scraper.same_count_attempts + 1 > 2
       IN  /\ scraper' = [scraper EXCEPT !.same_count_attempts =
                             IF scraper.new_tweets_found = 0
                                /\ ~(cambia /\ search_ok)
                             THEN @ + 1 ELSE 0]
           /\ pc' = IF cambia /\ ~search_ok THEN "break" ELSE "while"
    /\ UNCHANGED <<archivos, pagina_restante, obs>>
    /\ UNCHANGED <<run, minimum_tweets, exporters, previos, checkpoint_file, tweets, categoria_actual, consultas_sin_resultados, tweets_procesados, tweet_actual>>

\* lines 446-450: the last save and the value returned
Retorno(io) ==
    /\ \/ pc = "while" /\ ~SigueWhile
       \/ pc = "break"
    /\ archivos' = save_batch_to_csv(scraper.tweets_buffer, archivos, io).file
    /\ obs' = [obs EXCEPT !.retorno = Len(scraper.tweets_buffer)]
    /\ pc' = "return"
    /\ UNCHANGED <<scraper, pagina_restante>>
    /\ UNCHANGED <<run, minimum_tweets, exporters, previos, checkpoint_file, tweets, categoria_actual, consultas_sin_resultados, tweets_procesados, tweet_actual>>

NextPlaywright ==
    \/ Reintento
    \/ \E n \in 1..MaxPage : PaginaDeArticulos(n)
    \/ \E clase \in {"omitido", "excluido", "nuevo"}, io \in {"ok", "falla"} :
           Articulo(clase, io)
    \/ \E search_ok \in BOOLEAN : FinArticulos(search_ok)
    \/ \E io \in {"ok", "falla"} : Retorno(io)

SpecPlaywright == InitPlaywright /\ [][NextPlaywright]_vars

(***************************************************************************)
(* SpecSelenium: the Selenium Scraper (main.py, src/crawler/               *)
(* tweet_scraper.py, src/utils/csv_manager.py and checkpoint_manager.py)   *)
(* on one coordinate.  The state is held in the variables of the module:   *)
(* scraper is the TweetScraper object (tweets_procesados, ultimo_tweet_id) *)
(* together with termino, the position of main's for over the search       *)
(* terms, and the locals of the running extraer_tweets (tweets_extraidos,  *)
(* ids_procesados, intentos_sin_nuevos); checkpoint_file and archivos are, *)
(* per term, the checkpoint file and the CSV file (the list of the         *)
(* tweet_id cells of its rows); run counts the processes; pc is "main"     *)
(* (between two terms), "while" (extraer_tweets, line 127), or "exit"      *)
(* (sys.exit(0) after KeyboardInterrupt).  A tweet id is the last segment  *)
(* of the status URL (line 270), a decimal numeral, held as the sequence   *)
(* of its digits; the page of a term shows the tweets 101, 102, ... from   *)
(* the top at every visit.  tweets_extraidos is held in the order of       *)
(* extraction, which is the order list() gives it to guardar_tweets.       *)
(* scroll_count, which is only logged and stored, is left out.  obs        *)
(* observes, per term, al_guardar: the distinct tweets that the            *)
(* extractions of the term, by all the processes, held in tweets_extraidos *)
(* when they wrote its checkpoint.                                         *)
(***************************************************************************)
\* extraer_tweets, line 163: the period of the saves
PROGRESO_CADA == 10

\* extraer_tweets, line 127: scrolls without a new page height
MAX_INTENTOS_SIN_NUEVOS == 5

\* EXTRACTION_SETTINGS (config/settings.py, line 198)
max_tweets_por_termino == 500

\* the mutation of guardar_tweets: the rows already in the file are not
\* filtered out
guardar_tweets_sin_filtro(file, lista, io) ==
    IF lista = <<>> \/ io = "falla" THEN [ok |-> FALSE, file |-> file]
    ELSE [ok |-> TRUE, file |-> [existe |-> TRUE, filas |-> file.filas \o lista]]

\* CSVManager.guardar_tweets in its default mode 'a' (csv_manager.py, lines
\* 51-118); io is how the reads and writes end.  read_csv parses a column of
\* numerals as integers and astype(str) prints them (lines 90-93): the ids
\* of the file are compared without leading zeros, those of the call as given
guardar_tweets(file, lista, io) ==
    LET Primero(celda) == CHOOSE k \in 1..Len(celda) :
                              /\ k = Len(celda) \/ celda[k] # 0
                              /\ \A i \in 1..(k - 1) : celda[i] = 0
        Entero(celda) == SubSeq(celda, Primero(celda), Len(celda))
        tweets_existentes == {Entero(file.filas[i]) : i \in DOMAIN file.filas}
        Nuevo(id) == id \notin tweets_existentes
        df_nuevos == SelectSeq(lista, Nuevo)
    IN  IF lista = <<>> \/ io = "falla" THEN [ok |-> FALSE, file |-> file]
        ELSE IF file.existe
             THEN [ok |-> TRUE, file |-> [file EXCEPT !.filas = @ \o df_nuevos]]
             ELSE [ok |-> TRUE, file |-> [existe |-> TRUE, filas |-> lista]]

\* main has created the TweetScraper (main.py, lines 101-110; tweet_scraper.py,
\* lines 37-50); no checkpoint and no CSV file exists
InitSelenium ==
    /\ pc = "main"
    /\ run = 1
    /\ scraper = [tweets_procesados |-> 0, ultimo_tweet_id |-> <<>>,
                  termino |-> 0, tweets_extraidos |-> <<>>,
                  ids_procesados |-> {}, intentos_sin_nuevos |-> 0]
    /\ checkpoint_file = [t \in 1..MaxTerminos |->
                             [existe |-> FALSE, tweets_procesados |-> 0,
                              ultimo_tweet_id |-> <<>>]]
    /\ archivos = [t \in 1..MaxTerminos |-> [existe |-> FALSE, filas |-> <<>>]]
    /\ obs = [al_guardar |-> [t \in 1..MaxTerminos |-> {}]]
    /\ minimum_tweets = 0
    /\ exporters = <<>>
    /\ previos = {}
    /\ tweets = None
    /\ pagina_restante = 0
    /\ categoria_actual = ""
    /\ consultas_sin_resultados = 0
    /\ tweets_procesados = 0
    /\ tweet_actual = <<>>

\* a later process: main creates a new TweetScraper (main.py, lines 101-110)
\* after the process before it ended, by sys.exit(0) or after its last term
NuevoProceso ==
    /\ pc = "exit" \/ (pc = "main" /\ scraper.termino = MaxTerminos)
    /\ run < MaxRuns
    /\ run' = run + 1
    /\ pc' = "main"
    /\ scraper' = [tweets_procesados |-> 0, ultimo_tweet_id |-> <<>>,
                   termino |-> 0, tweets_extraidos |-> <<>>,
                   ids_procesados |-> {}, intentos_sin_nuevos |-> 0]
    /\ UNCHANGED <<checkpoint_file, archivos, obs>>
    /\ UNCHANGED <<minimum_tweets, exporters, previos, tweets, pagina_restante, categoria_actual, consultas_sin_resultados, tweets_procesados, tweet_actual>>

\* main takes the next term (main.py, lines 134-139) and extraer_tweets runs
\* up to its while (tweet_scraper.py, lines 88-125): the checkpoint of the
\* term, if there is one, replaces the counters; hay_tweets is whether the
\* wait of line 112 found an article (else return set(), line 120)
IniciarTermino(hay_tweets) ==
    /\ pc = "main"
    /\ scraper.termino < MaxTerminos
    /\ LET t == scraper.termino + 1
           checkpoint == checkpoint_file[t]
       IN  scraper' = [scraper EXCEPT
               !.termino = t,
               !.tweets_procesados =
                   IF checkpoint.existe THEN checkpoint.tweets_procesados ELSE @,
               !.ultimo_tweet_id =
                   IF checkpoint.existe THEN checkpoint.ultimo_tweet_id ELSE @,
               !.tweets_extraidos = <<>>,
               !.ids_procesados = {},
               !.intentos_sin_nuevos = 0]
    /\ pc' = IF hay_tweets THEN "while" ELSE "main"
    /\ UNCHANGED <<run, checkpoint_file, archivos, obs>>
    /\ UNCHANGED <<minimum_tweets, exporters, previos, tweets, pagina_restante, categoria_actual, consultas_sin_resultados, tweets_procesados, tweet_actual>>

\* the body of the for on an article whose tweet is new to ids_procesados
\* (lines 141-171): it is counted, and when the counter is a multiple of 10
\* the checkpoint is written and guardar_tweets is given tweets_extraidos
ProcesarElemento(io) ==
    /\ pc = "while"
    /\ Len(scraper.tweets_extraidos) < max_tweets_por_termino
    /\ Cardinality(scraper.ids_procesados) < MaxTweetsTermino
    /\ LET t == scraper.termino
           j == Cardinality(scraper.ids_procesados) + 1
           id == <<1, j \div 10, j % 10>>
           extraidos == Append(scraper.tweets_extraidos, id)
           cuenta == scraper.tweets_procesados + 1
           guarda == cuenta % PROGRESO_CADA = 0
           r == guardar_tweets(archivos[t], extraidos, io)
       IN  /\ scraper' = [scraper EXCEPT !.tweets_extraidos = extraidos,
                                         !.ids_procesados = @ \cup {id},
                                         !.tweets_procesados = cuenta,
                                         !.ultimo_tweet_id = id]
           /\ checkpoint_file' =
                  IF guarda
                  THEN [checkpoint_file EXCEPT ![t] =
                           [existe |-> TRUE, tweets_procesados |-> cuenta,
                            ultimo_tweet_id |-> id]]
                  ELSE checkpoint_file
           /\ archivos' = IF guarda THEN [archivos EXCEPT ![t] = r.file]
                          ELSE archivos
           /\ obs' = [obs EXCEPT !.al_guardar[t] =
                                      IF guarda THEN @ \cup Range(extraidos) ELSE @]
    /\ UNCHANGED <<pc, run>>
    /\ UNCHANGED <<minimum_tweets, exporters, previos, tweets, pagina_restante, categoria_actual, consultas_sin_resultados, tweets_procesados, tweet_actual>>

\* the end of an iteration of the while (lines 176-194): after the scrolls
\* the page height has changed or not
Scroll(cambia) ==
    /\ pc = "while"
    /\ Len(scraper.tweets_extraidos) < max_tweets_por_termino
    /\ scraper.intentos_sin_nuevos < MAX_INTENTOS_SIN_NUEVOS
    /\ scraper' = [scraper EXCEPT !.intentos_sin_nuevos =
                                      IF cambia THEN 0 ELSE @ + 1]
    /\ UNCHANGED <<pc, run, checkpoint_file, archivos, obs>>
    /\ UNCHANGED <<minimum_tweets, exporters, previos, tweets, pagina_restante, categoria_actual, consultas_sin_resultados, tweets_procesados, tweet_actual>>

\* the while has ended (line 127): the last checkpoint, the last
\* guardar_tweets and the return to main (lines 207-225)
FinExtraccion(io) ==
    /\ pc = "while"
    /\ \/ Len(scraper.tweets_extraidos) >= max_tweets_por_termino
       \/ scraper.intentos_sin_nuevos >= MAX_INTENTOS_SIN_NUEVOS
    /\ LET t == scraper.termino
           r == guardar_tweets(archivos[t], scraper.tweets_extraidos, io)
       IN  /\ checkpoint_file' = [checkpoint_file EXCEPT ![t] =
                  [existe |-> TRUE,
                   tweets_procesados |-> scraper.tweets_procesados,
                   ultimo_tweet_id |-> scraper.ultimo_tweet_id]]
           /\ archivos' = [archivos EXCEPT ![t] = r.file]
           /\ obs' = [obs EXCEPT !.al_guardar[t] =
                                      @ \cup Range(scraper.tweets_extraidos)]
    /\ pc' = "main"
    /\ UNCHANGED <<run, scraper>>
    /\ UNCHANGED <<minimum_tweets, exporters, previos, tweets, pagina_restante, categoria_actual, consultas_sin_resultados, tweets_procesados, tweet_actual>>

\* KeyboardInterrupt while extraer_tweets runs: no handler of extraer_tweets
\* or procesar_termino catches it (they catch Exception); main logs that the
\* tweets are saved and calls sys.exit(0) (main.py, lines 146-157)
Interrupcion ==
    /\ pc = "while"
    /\ pc' = "exit"
    /\ UNCHANGED <<run, scraper, checkpoint_file, archivos, obs>>
    /\ UNCHANGED <<minimum_tweets, exporters, previos, tweets, pagina_restante, categoria_actual, consultas_sin_resultados, tweets_procesados, tweet_actual>>

NextSelenium ==
    \/ NuevoProceso
    \/ \E hay_tweets \in BOOLEAN : IniciarTermino(hay_tweets)
    \/ \E io \in {"ok", "falla"} : ProcesarElemento(io)
    \/ \E cambia \in BOOLEAN : Scroll(cambia)
    \/ \E io \in {"ok", "falla"} : FinExtraccion(io)
    \/ Interrupcion

SpecSelenium == InitSelenium /\ [][NextSelenium]_vars

(***************************************************************************)
(* SpecCsv: CSVManager.guardar_tweets alone, called again and again on one *)
(* CSV file with lists of tweets of pairwise distinct ids.  archivos is    *)
(* the file; obs holds the ids passed to the calls that returned True      *)
(* (pasados), the number of calls made (llamadas) and whether a call that  *)
(* returned True was given an id the file already held (solapada).         *)
(***************************************************************************)
\* no call has been made and the file does not exist
InitCsv ==
    /\ pc = "csv"
    /\ archivos = [existe |-> FALSE, filas |-> <<>>]
    /\ obs = [pasados |-> {}, llamadas |-> 0, solapada |-> FALSE]
    /\ run = 1
    /\ scraper = <<>>
    /\ checkpoint_file = <<>>
    /\ minimum_tweets = 0
    /\ exporters = <<>>
    /\ previos = {}
    /\ tweets = None
    /\ pagina_restante = 0
    /\ categoria_actual = ""
    /\ consultas_sin_resultados = 0
    /\ tweets_procesados = 0
    /\ tweet_actual = <<>>

\* one call self.csv_manager.guardar_tweets(list(tweets_extraidos))
\* (tweet_scraper.py, lines 171 and 222) with the ids of lista
LlamadaGuardar(lista, io) ==
    /\ obs.llamadas < MaxLlamadas
    /\ LET r == guardar_tweets(archivos, lista, io)
       IN  /\ archivos' = r.file
           /\ obs' = [obs EXCEPT
                  !.llamadas = @ + 1,
                  !.pasados = IF r.ok THEN @ \cup Range(lista) ELSE @,
                  !.solapada = @ \/ (r.ok /\ Range(lista) \cap Range(archivos.filas) # {})]
    /\ UNCHANGED <<pc, run, scraper, checkpoint_file>>
    /\ UNCHANGED <<minimum_tweets, exporters, previos, tweets, pagina_restante, categoria_actual, consultas_sin_resultados, tweets_procesados, tweet_actual>>

\* the lists are those of pairwise distinct ids among 101, 102, ...
NextCsv ==
    \E n \in 0..MaxIdsCsv, io \in {"ok", "falla"} :
        \E lista \in [1..n -> {<<1, 0, i>> : i \in 1..MaxIdsCsv}] :
            /\ \A a, b \in 1..n : a # b => lista[a] # lista[b]
            /\ LlamadaGuardar(lista, io)

SpecCsv == InitCsv /\ [][NextCsv]_vars

(***************************************************************************)
(* Properties                                                              *)
(***************************************************************************)
SinRepetidos(filas) ==
    \A i, j \in DOMAIN filas : filas[i].id = filas[j].id => i = j

\* this run restored its progress from a checkpoint
Reanudado ==
    /\ ~scraper.checkpoint_data.none
    /\ "tweets_count" \in scraper.checkpoint_data.d.campos

\* the dedup snapshot and the accepted count of the checkpoint this run loaded
IdsCargados == Range(Get(scraper.checkpoint_data.d, "tweet_ids", <<>>))

CuentaCargada == scraper.checkpoint_data.d.v.tweets_count

\* C1: in one run of the API engine, resumed or not, no tweet id is exported
\* to an accepted sink (the CSV and the JSON exporter, and the files they
\* wrote) more than once, and no id is routed to both an accepted sink and
\* the rejected sink.
C1_AceptadoUnaVez ==
    /\ SinRepetidos(exporters.csv.data)
    /\ SinRepetidos(exporters.json.data)
    /\ SinRepetidos(Filas(archivos, "tweets.csv"))
    /\ SinRepetidos(Filas(archivos, "tweets.json"))
    /\ (Ids(exporters.csv.data) \cup Ids(exporters.json.data))
           \cap Ids(exporters.nonrelevant.data) = {}
    /\ AceptadosEnArchivos(archivos) \cap RechazadosEnArchivos(archivos) = {}

\* C1 happens: a resumed run was given a tweet processed before, skipped it,
\* and has accepted one tweet and rejected another
C1_Testigo ==
    /\ run = 2
    /\ Reanudado
    /\ obs.duplicados > 0
    /\ Len(exporters.csv.data) > 0
    /\ Len(exporters.nonrelevant.data) > 0

\* C2: a run that loaded a checkpoint with accepted count k never accepts an
\* id of the checkpoint's dedup snapshot, its accepted count is k plus the
\* tweets it accepted, and when it completes a target T > k its accepted
\* count is exactly T.
C2_ReanudacionMonotona ==
    Reanudado =>
        /\ Ids(exporters.csv.data) \cap IdsCargados = {}
        /\ scraper.tweets_count = CuentaCargada + Len(exporters.csv.data)
        /\ (pc \in {"guardar_final", "exit_ok"}
                /\ CuentaCargada < minimum_tweets
            => scraper.tweets_count = minimum_tweets)

\* C2 happens: a run resumed from k = 1 with a non-empty snapshot completed
\* the target 2
C2_Testigo ==
    /\ Reanudado
    /\ pc = "exit_ok"
    /\ CuentaCargada = 1
    /\ IdsCargados # {}
    /\ scraper.tweets_count = 2

\* the accepted records the persisted checkpoint counts and the durable
\* accepted output (the files of this run and of the earlier ones) lacks
Perdidos ==
    checkpoint_file.obj.v.tweets_count
    - Cardinality(Range(checkpoint_file.obj.v.tweet_ids)
                  \cap (previos.aceptados \cup AceptadosEnArchivos(archivos)))

\* C3: when the process was killed, at most CHECKPOINT_CADA = 10 records that
\* the persisted checkpoint counts as accepted are missing from the durable
\* accepted output.
C3_PerdidaAcotada ==
    pc = "killed" /\ checkpoint_file.kind = "json"
        => Perdidos <= CHECKPOINT_CADA

\* every record appended to the three exporters is in their files
TodoVolcado ==
    /\ Filas(archivos, "tweets.csv") = exporters.csv.data
    /\ Filas(archivos, "tweets.json") = exporters.json.data
    /\ Filas(archivos, "nonrelevant.csv") = exporters.nonrelevant.data
    /\ Filas(archivos, "nonrelevant.json") = exporters.nonrelevant.data

\* C4: when the process has exited on SIGINT/SIGTERM, every record appended
\* to the accepted and the rejected sinks is in stable storage.
C4_SenalVuelcaTodo ==
    pc = "exit_senal" => TodoVolcado

\* the checkpoint file holds the scraper's current counters and dedup set
CheckpointAlDia ==
    /\ checkpoint_file.kind = "json"
    /\ checkpoint_file.obj.campos = CamposCheckpoint
    /\ checkpoint_file.obj.v.tweets_count = scraper.tweets_count
    /\ checkpoint_file.obj.v.tweets_personales = scraper.tweets_personales
    /\ checkpoint_file.obj.v.tweets_filtrados = scraper.tweets_filtrados
    /\ checkpoint_file.obj.v.estadisticas = scraper.estadisticas
    /\ Range(checkpoint_file.obj.v.tweet_ids) = scraper.tweet_ids_procesados

\* a step that ends an initialized process leaves the checkpoint up to date
TerminaConCheckpoint ==
    (/\ pc \in {"inicializado", "loop", "pagina", "procesando",
                "guardar_final"}
     /\ pc' \in {"exit_ok", "exit_error", "exit_senal"})
    => CheckpointAlDia'

C7_CargaTolerante ==
    /\ ~scraper.checkpoint_data.none
    /\ "tweets_count" \notin scraper.checkpoint_data.d.campos
    => pc # "exit_init"

\* C8: the checkpoint file is never a half-written or empty file.
C8_CheckpointAtomico ==
    checkpoint_file.kind # "truncated"

\* this run started from an empty dedup index and is between two tweets
DesdeIndiceVacio ==
    /\ ~Reanudado
    /\ pc \in {"loop", "pagina", "guardar_final", "exit_ok"}

ArchivosDe(clase) ==
    IF clase = "csv" THEN {"tweets.csv"}
    ELSE IF clase = "json" THEN {"tweets.json"}
    ELSE {"nonrelevant.csv", "nonrelevant.json"}

\* C10: before any explicit save(), an exporter given exactly its threshold
\* of records (100 accepted, 200 rejected) has exactly them in its files, and
\* one given fewer has no file; the explicit save() stores all the records.
C10_UmbralAutoSave ==
    \A clase \in {"csv", "json", "nonrelevant"} :
        \A nombre \in ArchivosDe(clase) :
            /\ pc = "sink"
                   /\ Len(exporters[clase].data)
                          = exporters[clase].auto_save_threshold
               => Filas(archivos, nombre) = exporters[clase].data
            /\ pc = "sink"
                   /\ Len(exporters[clase].data)
                          < exporters[clase].auto_save_threshold
               => archivos[nombre] = Ausente
            /\ pc = "exit_ok"
               => Filas(archivos, nombre) = exporters[clase].data

\* C10 happens: the accepted exporters hold exactly 100 records and their
\* files 100 rows, the rejected exporter holds 199 and has no file
C10_Testigo ==
    /\ pc = "sink"
    /\ Len(exporters.csv.data) = UMBRAL_BASE
    /\ Len(Filas(archivos, "tweets.csv")) = UMBRAL_BASE
    /\ Len(Filas(archivos, "tweets.json")) = UMBRAL_BASE
    /\ Len(exporters.nonrelevant.data) = UMBRAL_NONRELEVANT - 1
    /\ archivos["nonrelevant.csv"] = Ausente

(***************************************************************************)
(* Exporters under failing writes                                          *)
(***************************************************************************)
\* the primary file of the CSV and of the JSON exporter
PrimarioDe(clase) ==
    IF clase = "csv" THEN "tweets.csv" ELSE "tweets.json"

\* C11: a save() never leaves a primary file truncated or partly written:
\* after it, each primary file holds the whole buffer or what it held before
C11_SaveAtomico ==
    \A n \in Primarios : archivos[n].estado # "cortado"

\* the buffer of every exporter still holds every record given to it, in
\* order
BufferIntacto ==
    /\ SubSeq(exporters.csv.data, 1, UMBRAL_BASE - 1) = FilasAceptadas
    /\ SubSeq(exporters.json.data, 1, UMBRAL_BASE - 1) = FilasAceptadas
    /\ SubSeq(exporters.nonrelevant.data, 1, UMBRAL_NONRELEVANT - 1)
          = FilasRechazadas
    /\ \A clase \in {"csv", "json", "nonrelevant"} :
          \A i \in 1..Len(exporters[clase].data) :
              exporters[clase].data[i].id = i

\* what save() of the CSV or JSON exporter returned and left behind
RespaldoArchivo(clase) ==
    LET p == PrimarioDe(clase)
        io == obs.save_io
        data == exporters[clase].data
    IN /\ obs.save_ret[clase] = (io[p] = "ok" \/ io[Backup(p)] = "ok")
       /\ io[p] # "ok" /\ io[Backup(p)] = "ok"
             => archivos[Backup(p)] =
                   [estado |-> "completo", filas |-> data]
       /\ io[p] = "ok"
             => archivos[p] = [estado |-> "completo", filas |-> data]

\* what save() of the NonRelevantExporter returned and left behind
RespaldoNonRelevant ==
    LET io == obs.save_io
        data == exporters.nonrelevant.data
        pares == {"nonrelevant.csv", "nonrelevant.json"}
        primario == \A n \in pares : io[n] = "ok"
        respaldo == \A n \in pares : io[Backup(n)] = "ok"
    IN /\ obs.save_ret.nonrelevant = (primario \/ respaldo)
       /\ ~primario /\ respaldo
             => \A n \in pares :
                   archivos[Backup(n)] =
                      [estado |-> "completo", filas |-> data]
       /\ primario
             => \A n \in pares :
                   archivos[n] = [estado |-> "completo", filas |-> data]

\* C12: save() returns True exactly when the primary write or the fallback
\* write succeeded, the fallback file then holding the whole buffer; when
\* both fail it returns False, and in every case the buffer is kept and the
\* run goes on
C12_RespaldoYRetencion ==
    /\ BufferIntacto
    /\ pc = "exit_ok" =>
          /\ RespaldoArchivo("csv")
          /\ RespaldoArchivo("json")
          /\ RespaldoNonRelevant

\* an auto-save and the final save both failed on both paths; the run went
\* on between them and the buffer holds every record
C12_Testigo ==
    /\ pc = "exit_ok"
    /\ ~obs.save_ret.csv
    /\ ~obs.save_ret.nonrelevant
    /\ Len(exporters.csv.data) = UMBRAL_BASE + MaxExtra
    /\ exporters.csv.last_save_count = UMBRAL_BASE
    /\ \A n \in NombresDe("csv") : Filas(archivos, n) = <<>>

\* where save() of the final flush left the buffer of a primary file
Salida(nombre) ==
    IF obs.save_io[nombre] = "ok" THEN Filas(archivos, nombre)
    ELSE Filas(archivos, Backup(nombre))

Rechazadas == Range(exporters.nonrelevant.data)

Aceptadas == Range(exporters.csv.data)

\* the tweet object a row was made from, and the outcome of its tests
CrudoDe(fila) == Catalogo[fila.id]

RasgosDe(fila) == Rasgos[fila.id]

\* the tweets of the catalogue, by id, that fail ubicacion_ecuador
FueraDeEcuador ==
    {i \in DOMAIN Catalogo : ~ubicacion_ecuador(Rasgos[i])}

\* C14: every tweet that fails ubicacion_ecuador is rejected with the reason
\* no_ecuador, whatever the relevance filter says about it
C14_MotivoUbicacion ==
    \A fila \in Rechazadas :
        fila.id \in FueraDeEcuador =>
            fila.motivo_filtrado = "no_ecuador"

\* C15: the reply "no aguanto más este estrés" of a non-institutional author
\* is accepted and classified as a personal expression
C15_RespuestaNoAguanto ==
    /\ \A fila \in Rechazadas :
          CrudoDe(fila).text # "no aguanto más este estrés"
    /\ \A fila \in Aceptadas :
          /\ CrudoDe(fila).text = "no aguanto más este estrés"
          /\ CrudoDe(fila).in_reply_to_status_id # None
          => fila.es_personal

\* a reply that is not a retweet and has no high-relevance term in its text
RespuestaSinSenal(crudo) ==
    /\ ~crudo.retweeted_status
    /\ crudo.in_reply_to_status_id # None
    /\ ~Alguna(palabras_alta_relevancia, Lower(crudo.text))

\* the tweets of the catalogue, by id, that are such replies
RespuestasSinSenal ==
    {i \in DOMAIN Catalogo : RespuestaSinSenal(Catalogo[i])}

\* C16: a reply that is not a retweet and whose text has no high-relevance
\* term is rejected with the reason respuesta, whoever its author is and
\* whatever else its text holds
C16_RespuestaSinSenal ==
    /\ \A fila \in Aceptadas : fila.id \notin RespuestasSinSenal
    /\ \A fila \in Rechazadas :
          fila.id \in RespuestasSinSenal =>
              fila.motivo_filtrado = "respuesta"

\* the reply "qué lindo día" of an ordinary author and the same reply of an
\* institutional author were both rejected as replies
C16_Testigo ==
    \E f1 \in Rechazadas, f2 \in Rechazadas :
        /\ CrudoDe(f1).text = "qué lindo día"
        /\ CrudoDe(f1).name = "Ana"
        /\ f1.id \in RespuestasSinSenal
        /\ f1.motivo_filtrado = "respuesta"
        /\ CrudoDe(f2).name = "Canal Oficial"
        /\ f2.id \in RespuestasSinSenal
        /\ f2.motivo_filtrado = "respuesta"

\* the author name or description holds a term of FILTROS_CUENTAS
Institucional(crudo) ==
    \E filtro \in FILTROS_CUENTAS :
        Contiene(Lower(crudo.name), filtro)
        \/ Contiene(Lower(crudo.description), filtro)

\* the text holds one of expresiones_personales_fuertes
ExpresionFuerte(crudo) ==
    Alguna(expresiones_personales_fuertes, Lower(crudo.text))

\* the tweets of the catalogue, by id, of institutional authors and with a
\* strong expression
Institucionales ==
    {i \in DOMAIN Catalogo : Institucional(Catalogo[i])}

ConExpresionFuerte ==
    {i \in DOMAIN Catalogo : ExpresionFuerte(Catalogo[i])}

RechazoExplicito(crudo) ==
    LET texto == Lower(crudo.text)
    IN \/ crudo.retweeted_status
       \/ RespuestaSinSenal(crudo)
       \/ Institucional(crudo) /\ ~ExpresionFuerte(crudo)
       \/ /\ Alguna(FILTROS_COMUNICADOS, texto)
          /\ ~BuscaPalabra(patron_primera_persona, texto)

\* neither the personal pattern nor a crisis term with a distress term
SinEtiqueta(crudo) ==
    LET texto == Lower(crudo.text)
    IN /\ ~BuscaPalabra(expresiones_personales_regex, texto)
       /\ ~(Alguna(palabras_crisis, texto) /\ Alguna(palabras_estres, texto))

\* the tweets of the catalogue, by id, that one of the four rejections
\* applies to, and those that match no tag
RechazosExplicitos ==
    {i \in DOMAIN Catalogo : RechazoExplicito(Catalogo[i])}

SinEtiquetas ==
    {i \in DOMAIN Catalogo : SinEtiqueta(Catalogo[i])}

\* C18: filtrar_tweet rejects only by its four explicit rejections (retweet,
\* respuesta, cuenta_institucional, comunicado_oficial); every other tweet is
\* accepted, with the tag relevante when neither the personal pattern nor a
\* crisis term together with a distress term matches
C18_PermisivoPorDefecto ==
    /\ \A fila \in Rechazadas :
          /\ fila.motivo_filtrado \in
                {"retweet", "respuesta", "cuenta_institucional",
                 "comunicado_oficial", "no_ecuador"}
          /\ fila.motivo_filtrado # "no_ecuador"
                => fila.id \in RechazosExplicitos
          /\ fila.motivo_filtrado = "no_ecuador"
                => /\ fila.id \notin RechazosExplicitos
                   /\ fila.id \in FueraDeEcuador
    /\ \A fila \in Aceptadas :
          /\ fila.id \notin RechazosExplicitos
          /\ filtrar_tweet(RasgosDe(fila)).incluir
          /\ fila.id \in SinEtiquetas
                => /\ filtrar_tweet(RasgosDe(fila)).motivo = "relevante"
                   /\ ~fila.es_personal

\* "qué lindo día", with no distress and no crisis term, was accepted
C18_Testigo ==
    \E fila \in Aceptadas :
        /\ CrudoDe(fila).text = "qué lindo día"
        /\ ~Alguna(palabras_crisis \cup palabras_estres, CrudoDe(fila).text)
        /\ filtrar_tweet(RasgosDe(fila)).motivo = "relevante"
        /\ ~fila.es_personal

(***************************************************************************)
(* The waits of obtener_tweets                                             *)
(***************************************************************************)
\* the first n failed calls since the last success were all rate-limit signals
SoloLimites(n) ==
    \A k \in 1..n : obs.esperas[k].causa = "TooManyRequests"

\* C19: from consecutive_errors = 0, the n-th of n consecutive rate-limit
\* signals waits min(60 * 2^n, 3600) seconds: 120, 240 and 480 for the first
\* three, each longer than the one before
C19_EsperaExponencial ==
    /\ \A n \in 1..Len(obs.esperas) :
          SoloLimites(n) =>
              obs.esperas[n].espera = Min(60 * (2 ^ n), 3600)
    /\ Len(obs.esperas) >= 3 /\ SoloLimites(3) =>
          /\ obs.esperas[1].espera = 120
          /\ obs.esperas[2].espera = 240
          /\ obs.esperas[3].espera = 480
          /\ obs.esperas[1].espera < obs.esperas[2].espera
          /\ obs.esperas[2].espera < obs.esperas[3].espera

\* three rate-limit signals in a row have been answered
C19_Testigo ==
    /\ Len(obs.esperas) = 3
    /\ SoloLimites(3)
    /\ scraper.consecutive_errors = 3
    /\ obs.esperas[3].espera = 480

\* C20: after a successful call of the transport consecutive_errors is zero,
\* and the first call that fails after it waits the first step, 120 seconds
\* after a rate-limit signal and 30 after another exception, whatever had
\* failed before the success
C20_ReinicioTrasExito ==
    /\ scraper.consecutive_errors = Len(obs.esperas)
    /\ pc \in {"pagina", "procesando"} => scraper.consecutive_errors = 0
    /\ Len(obs.esperas) >= 1 =>
          obs.esperas[1].espera =
              IF obs.esperas[1].causa = "TooManyRequests" THEN 120 ELSE 30

\* three calls failed, one succeeded, and the next rate-limit signal waited
\* 120 seconds
C20_Testigo ==
    /\ obs.racha_anterior = 3
    /\ Len(obs.esperas) = 1
    /\ obs.esperas[1].causa = "TooManyRequests"
    /\ obs.esperas[1].espera = 120
    /\ scraper.consecutive_errors = 1

\* how many of the first n failed calls since the last success had the cause
CuentaCausa(causa, n) ==
    Cardinality({k \in 1..n : obs.esperas[k].causa = causa})

\* C21: the wait after a transient error is min(30 * n, 600) with n counting
\* the consecutive transient errors only, and the wait after a rate-limit
\* signal is computed from the rate-limit signals only: neither kind of
\* failure lengthens a later wait of the other kind
C21_ContadoresSeparados ==
    \A n \in 1..Len(obs.esperas) :
        obs.esperas[n].espera =
            IF obs.esperas[n].causa = "Exception"
            THEN Min(30 * CuentaCausa("Exception", n), 600)
            ELSE Min(60 * (2 ^ CuentaCausa("TooManyRequests", n)), 3600)

(***************************************************************************)
(* The category of a query                                                 *)
(***************************************************************************)
\* C22: whatever generar_consulta draws, in the predefined and in the
\* composed strategy, the category it returns is never None and is one of
\* the five manifestation categories, each a key of the per-category
\* statistics, so every accepted record is counted under a category
C22_CategoriaDefinida ==
    /\ Range(CategoriasManifestacion) \subseteq DOMAIN scraper.estadisticas
    /\ pc \in {"pagina", "procesando"} =>
           /\ categoria_actual # None
           /\ categoria_actual \in Range(CategoriasManifestacion)
    /\ scraper.estadisticas["estres_directo"]
       + scraper.estadisticas["manifestaciones_fisicas"]
       + scraper.estadisticas["manifestaciones_psicologicas"]
       + scraper.estadisticas["expresiones_malestar"]
       + scraper.estadisticas["impacto_actividades"] = scraper.tweets_count

\* the predefined pair whose expression is in no list of PALABRAS_CLAVE was
\* drawn and a record was accepted under the default category
C22_Testigo ==
    /\ obs.consulta = generar_consulta(Eleccion(TRUE, 28, 1, 1, 1, 1)).consulta
    /\ COMBINACIONES_BUSQUEDA[28][1] = "qué impotencia"
    /\ CategoriasDe("qué impotencia") = <<>>
    /\ scraper.estadisticas["expresiones_malestar"] = 1

(***************************************************************************)
(* How a process ends                                                      *)
(***************************************************************************)
\* the process ended by itself (it was not killed)
Terminado == pc \in Salidas \ {"killed"}

\* a process ends with status 0 only after extraer_tweets returned with the
\* target reached
ExitoConObjetivo ==
    /\ pc \in {"guardar_final", "exit_ok"} =>
           scraper.tweets_count >= minimum_tweets
    /\ (Terminado /\ exit_code(pc) = 0) => pc = "exit_ok"

\* C23 as stated: a process ends with status 0 only when tweets_count >=
\* target, and every other end has a non-zero status and is caused by an
\* operator interrupt or by a failed initialization
C23_SoloInterrupcionOInicio ==
    /\ ExitoConObjetivo
    /\ (Terminado /\ pc # "exit_ok") =>
           /\ exit_code(pc) # 0
           /\ pc \in {"exit_senal", "exit_init"}

\* C23, amended: a process ends with status 0 only when tweets_count >=
\* target, and every other end has a non-zero status and is caused by an
\* operator interrupt, by a failed initialization or by an exception that
\* reaches the except of main
C23_TerminaConObjetivo ==
    /\ ExitoConObjetivo
    /\ (Terminado /\ pc # "exit_ok") =>
           /\ exit_code(pc) # 0
           /\ pc \in {"exit_senal", "exit_init", "exit_error"}

\* a run ended with status 0 at the target, after an earlier run of the same
\* collection ended early
C23_Testigo ==
    /\ pc = "exit_ok"
    /\ run > 1
    /\ scraper.tweets_count = minimum_tweets
    /\ exit_code(pc) = 0

\* what a step that ends the process makes of the status
PasoDeSalida ==
    /\ (pc = "guardar_final" /\ pc' = "exit_ok") =>
           /\ scraper'.tweets_count >= minimum_tweets'
           /\ exit_code(pc') = 0
    /\ pc' = "exit_senal" => exit_code(pc') # 0
    /\ (pc = "inicializar" /\ pc' \in Salidas \ {"killed"}) =>
           /\ pc' \in {"exit_init", "exit_senal"}
           /\ exit_code(pc') # 0
    /\ (pc' \in Salidas \ {"killed"} /\ exit_code(pc') = 0) =>
           pc = "guardar_final"

\* C24: the process exits with status 0 when main returns with the target
\* reached, with a non-zero status on SIGINT or SIGTERM and with a non-zero
\* status when inicializar fails; no interrupt and no failed initialization
\* ends with status 0
C24_CodigosDeSalida ==
    [][PasoDeSalida]_vars

\* a signal ended, with a non-zero status, a process that had reached its
\* target and not yet returned from main
C24_Testigo ==
    /\ pc = "exit_senal"
    /\ exit_code(pc) = 1
    /\ scraper.tweets_count >= minimum_tweets
    /\ scraper.tweets_count > 0

(***************************************************************************)
(* The logins of one initialization                                        *)
(***************************************************************************)
\* a failed initialization ended the run before the loop, and no checkpoint
\* was written
AbortaSinCheckpoint ==
    /\ obs.login.agotado =>
           /\ ~obs.login.ok
           /\ pc \in {"exit_init", "exit_senal"}
           /\ scraper.tweets_count = 0
    /\ pc = "exit_init" =>
           /\ exit_code(pc) # 0
           /\ checkpoint_file = ArchivoNoJson("missing")
    /\ pc \in {"inicializado", "loop", "pagina", "procesando",
               "guardar_final", "exit_ok"} => obs.login.ok

\* the waits between the attempts of each _login_with_retry grow: 30, 60
EsperaIncremental ==
    \A k \in DOMAIN obs.login.esperas :
        obs.login.esperas[k] \in {30 * n : n \in 1..max_retries - 1}

\* C25: during one initialization client.login is called at most max_retries
\* (3) times, with a growing wait between the attempts; when the attempts
\* are exhausted inicializar returns False and main exits with a non-zero
\* status, without entering the loop and without writing a checkpoint
C25_LoginAcotadoYFatal ==
    /\ obs.login.intentos <= max_retries
    /\ EsperaIncremental
    /\ AbortaSinCheckpoint

(***************************************************************************)
(* The end of the collection at the target                                 *)
(***************************************************************************)
\* what a step of the loop makes of the count, of the dedup set and of the
\* sinks
PasoEnObjetivo ==
    /\ (/\ pc \in {"loop", "pagina", "procesando"}
        /\ scraper.tweets_count <= minimum_tweets)
       => scraper'.tweets_count <= minimum_tweets'
    /\ (/\ pc \in {"loop", "pagina"}
        /\ scraper.tweets_count >= minimum_tweets)
       => /\ pc' # "procesando"
          /\ scraper' = scraper
          /\ exporters' = exporters
          /\ archivos' = archivos

\* C26: tweets_count, which starts at or below the target, never exceeds it,
\* and once the candidate that makes it equal to the target was processed,
\* no other candidate of that page is processed: none is added to
\* tweet_ids_procesados and none is exported
C26_ParaEnObjetivo ==
    [][PasoEnObjetivo]_vars

\* the target was reached by the first candidate of a page of MaxPage
\* candidates: the rest of the page was dropped
C26_Testigo ==
    /\ pc = "pagina"
    /\ scraper.tweets_count = minimum_tweets
    /\ pagina_restante = 0
    /\ tweets_procesados = 1
    /\ MaxPage > 1

(***************************************************************************)
(* The query after a failed or an empty call                               *)
(***************************************************************************)
\* C27: after a call of obtener_tweets that ended in TooManyRequests or in
\* another exception, the loop goes on with the query, the category and the
\* cursor it had: unless random.random() < 0.3 or the empty pages reached the
\* threshold, the next iteration does not call generar_consulta (stated for
\* the runs that had fetched a page before)
C27_FalloMantieneConsulta ==
    (pc = "loop" /\ scraper.consecutive_errors > 0 /\ obs.candidatos > 0) =>
        (~Rota(FALSE) /\ tweets # None)

\* what a step makes of the empty-result counter
PasoVacio ==
    /\ (/\ pc' = "loop"
        /\ scraper'.consecutive_errors = 0
        /\ consultas_sin_resultados' > 0
        /\ consultas_sin_resultados' < max_consultas_sin_resultados)
       => tweets' # None
    /\ (pc = "pagina" /\ pc' = "loop" /\ tweets_procesados > 0)
       => consultas_sin_resultados' = 0

\* C28: a page with zero candidates only adds 1 to consultas_sin_resultados:
\* below the threshold of 5 the query is kept (line 366 is not forced to
\* call generar_consulta), and a page that yields accepted records ends the
\* run of empty pages, the counter going back to 0
C28_RotacionPorVacias ==
    [][PasoVacio]_vars

(***************************************************************************)
(* The cadence of the checkpoints                                          *)
(***************************************************************************)
\* the tweets_count a new process would resume from
CuentaPersistida ==
    IF checkpoint_file.kind = "json"
       /\ "tweets_count" \in checkpoint_file.obj.campos
    THEN checkpoint_file.obj.v.tweets_count
    ELSE 0

C30_ProgresoAlObjetivo ==
    <>(pc = "guardar_final" /\ scraper.tweets_count >= minimum_tweets)

\* extraer_tweets returned at the target of a run in which calls had failed
\* in a row and tweets had been rejected and repeated
C30_Testigo ==
    /\ pc = "guardar_final"
    /\ scraper.tweets_count = minimum_tweets
    /\ obs.racha_anterior = MaxFallos
    /\ scraper.tweets_filtrados > 0
    /\ obs.duplicados > 0

(***************************************************************************)
(* The query and the category a record is stored with                      *)
(***************************************************************************)
\* C31: the query and the category that procesar_tweet is given for the
\* candidates of a page, and the category of the accepted record it exports,
\* are those of the search that opened the cursor the page came from, also
\* when line 366 drew a new query while a cursor was held
C31_AtribucionDeConsulta ==
    /\ pc \in {"pagina", "procesando"} =>
           /\ obs.consulta = obs.busqueda.consulta
           /\ categoria_actual = obs.busqueda.categoria
    /\ (pc = "pagina" /\ tweets_procesados > 0) =>
           exporters.csv.data[Len(exporters.csv.data)].categoria
               = obs.busqueda.categoria

(***************************************************************************)
(* The counters of the scraper                                             *)
(***************************************************************************)
\* the relations between the counters of a scraper; en_vuelo is 1 inside a
\* call of procesar_tweet that has added the id and not yet counted it
Relaciones(s, en_vuelo) ==
    /\ Cardinality(s.tweet_ids_procesados)
           = s.tweets_count + s.tweets_filtrados + en_vuelo
    /\ s.tweets_count
           = s.estadisticas["crisis_energetica"]
             + s.estadisticas["contexto_ecuador"]
             + s.estadisticas["estres_directo"]
             + s.estadisticas["manifestaciones_fisicas"]
             + s.estadisticas["manifestaciones_psicologicas"]
             + s.estadisticas["expresiones_malestar"]
             + s.estadisticas["impacto_actividades"]
    /\ s.tweets_personales <= s.tweets_count

\* the run started from nothing or from a checkpoint with the relations
InicioConsistente ==
    \/ scraper.checkpoint_data.none
    \/ scraper.checkpoint_data.d.campos = {}
    \/ Relaciones(RestaurarCheckpoint(TwitterScraper,
                                      scraper.checkpoint_data.d), 0)

\* C32: in a run that started from the empty state or from a checkpoint
\* with these relations, after every completed call of procesar_tweet the
\* size of tweet_ids_procesados is tweets_count + tweets_filtrados,
\* tweets_count is the sum of the per-category counts, and
\* tweets_personales <= tweets_count
C32_ContadoresConsistentes ==
    (pc \in {"inicializado", "loop", "pagina", "procesando", "guardar_final"}
     /\ InicioConsistente)
    => Relaciones(scraper, IF pc = "procesando" THEN 1 ELSE 0)

\* a later run restored a checkpoint with counted tweets and has completed
\* further calls, with accepted and rejected tweets counted
C32_Testigo ==
    /\ pc = "pagina"
    /\ run > 1
    /\ ~scraper.checkpoint_data.none
    /\ InicioConsistente
    /\ scraper.checkpoint_data.d.v.tweets_count
           + scraper.checkpoint_data.d.v.tweets_filtrados > 0
    /\ scraper.tweets_count > 0
    /\ scraper.tweets_filtrados > 0
    /\ scraper.tweets_count + scraper.tweets_filtrados
           > scraper.checkpoint_data.d.v.tweets_count
             + scraper.checkpoint_data.d.v.tweets_filtrados
    /\ Relaciones(scraper, 0)

\* C33: the checkpoint that signal_handler persists, at whatever point of
\* procesar_tweet the signal arrives, has a dedup snapshot whose size is the
\* accepted count plus the rejected count (no id is in it that has not been
\* counted and handed to an exporter)
C33_CheckpointDeSenalConsistente ==
    (pc = "exit_senal" /\ CheckpointAlDia /\ InicioConsistente)
    => Len(checkpoint_file.obj.v.tweet_ids)
           = checkpoint_file.obj.v.tweets_count
             + checkpoint_file.obj.v.tweets_filtrados

\* a step that ends the process on SIGINT or SIGTERM keeps what a complete
\* checkpoint on disk recorded: its accepted count does not decrease and no
\* id of its dedup snapshot is dropped
PasoSinRetroceso ==
    (/\ pc' = "exit_senal"
     /\ checkpoint_file.kind = "json"
     /\ checkpoint_file.obj.campos = CamposCheckpoint)
    => /\ checkpoint_file'.kind = "json"
       /\ checkpoint_file'.obj.campos = CamposCheckpoint
       /\ checkpoint_file'.obj.v.tweets_count
              >= checkpoint_file.obj.v.tweets_count
       /\ Range(checkpoint_file.obj.v.tweet_ids)
              \subseteq Range(checkpoint_file'.obj.v.tweet_ids)

\* C34: once a checkpoint with accepted count k and dedup snapshot S is on
\* disk, no execution leaves a checkpoint with a smaller count or without
\* an id of S, also when SIGINT or SIGTERM arrives between the creation of
\* the scraper object and load_checkpoint in inicializar
C34_ProgresoNoRetrocede == [][PasoSinRetroceso]_vars

(***************************************************************************)
(* The Playwright Scraper                                                  *)
(***************************************************************************)
\* the tweets extract_tweets has appended to tweets_buffer
Recolectados == scraper.seen_tweets \ obs.excluidos

\* C35: when save_batch_to_csv fails for a full batch its records are not
\* discarded: every tweet appended to tweets_buffer is in the CSV file or
\* still in the buffer
C35_LoteFallidoSeConserva ==
    Recolectados \subseteq Range(archivos) \cup Range(scraper.tweets_buffer)

\* C36: extract_tweets stops once the tweets collected for the keyword reach
\* target_tweets, so a keyword contributes at most max_tweets_per_keyword
\* tweets, and it returns the number of tweets collected for the keyword
C36_LimitePorKeyword ==
    /\ Cardinality(Recolectados) <= scraper.target_tweets
    /\ Cardinality(Recolectados) <= max_tweets_per_keyword
    /\ pc = "return" => obs.retorno = Cardinality(Recolectados)

(***************************************************************************)
(* The Selenium Scraper                                                    *)
(***************************************************************************)
\* C37: when KeyboardInterrupt ends the process during extraer_tweets, every
\* tweet extracted so far for the current term is in the CSV file of the term
C37_InterrupcionConTweetsGuardados ==
    pc = "exit" =>
        Range(scraper.tweets_extraidos)
            \subseteq Range(archivos[scraper.termino].filas)

\* C38: the tweets_procesados of the checkpoint of a term is the number of
\* distinct tweets extracted for that term, when one TweetScraper takes
\* several terms one after the other and when a term is resumed
C38_CuentaPorTermino ==
    \A t \in 1..MaxTerminos :
        checkpoint_file[t].existe =>
            checkpoint_file[t].tweets_procesados
                = Cardinality(obs.al_guardar[t])

\* C39: after any sequence of calls of guardar_tweets in append mode, each
\* with pairwise distinct ids that may repeat those of earlier calls, the CSV
\* file has at most one row per tweet_id and holds every id passed to a call
\* that returned True
C39_CsvSinDuplicados ==
    /\ Cardinality(Range(archivos.filas)) = Len(archivos.filas)
    /\ obs.pasados \subseteq Range(archivos.filas)

\* calls that returned True have repeated ids the file already held and
\* have added others
C39_Testigo ==
    /\ obs.solapada
    /\ obs.llamadas = MaxLlamadas
    /\ Len(archivos.filas) = MaxIdsCsv
    /\ obs.pasados = Range(archivos.filas)

====
